---- MODULE Spec2Model ----
(***************************************************************************)
(* JanusKey: reversible file operations.                                   *)
(*                                                                         *)
(* The model covers the working-directory file system as the executor      *)
(* sees it through std::fs, the content-addressed store, the operation     *)
(* journal (MetadataStore), the per-operation execute/undo code of         *)
(* OperationExecutor and the TransactionManager with its rollback loop.    *)
(*                                                                         *)
(* Timestamps are kept only as the modification time of regular files,     *)
(* abstracted to "old" (as found when the session started) and "new"       *)
(* (written or touched since); owner and group never change and are left   *)
(* out.  Persisting a log (save) is taken to succeed.                      *)
(***************************************************************************)
EXTENDS Integers, Sequences, FiniteSets, TLC

\* ------------------------------------------------------------------------
\* Bounds of the exploration
\* ------------------------------------------------------------------------

\* Longest journal explored (forward records and undo records together).
MaxJournal == 4

\* Most forward (non-undo) operations executed in one run.
MaxExec == 2

\* Most transactions begun in one run.
MaxTx == 2

\* Latest reading of the logical clock (Now) at which a call may start.
MaxClock == 6

\* Most records in the obliteration log.
MaxObl == 2

\* Most keys in the key store.
MaxKeys == 3

\* Most entries in the audit log.
MaxAudit == 5

\* ------------------------------------------------------------------------
\* Option values
\* ------------------------------------------------------------------------

None == <<>>

Some(x) == <<x>>

IsSome(o) == Len(o) = 1

Get(o) == o[1]

\* ------------------------------------------------------------------------
\* The working directory: paths and nodes
\* ------------------------------------------------------------------------

\* The paths of the working directory, relative to its root <<>>.
Paths == {<<"a">>, <<"d">>, <<"d", "f">>, <<"d", "s">>, <<"d", "s", "g">>}

\* The paths the inputs name.
InputPaths == {<<"a">>, <<"d">>, <<"d", "f">>}

\* Where FileOperation::Symlink inputs put a link and what they point it at.
\* Links are made only at a path that has no descendants among Paths, to a
\* path that is not under a link, so resolution never leaves Paths.
SymlinkPaths == {<<"a">>}

SymlinkTargets == {<<"d", "f">>}

\* Byte strings the inputs carry (Create/Modify content, Append content).
Contents == {<<2>>}

AppendContents == {<<2>>}

\* Truncate sizes: shrink to nothing, or to a length that extends short files.
TruncateSizes == {0, 2}

\* A byte string is a sequence of tokens: token t stands for CountOf(t)
\* copies of the byte ByteOf(t), so a byte below 256 is its own token.  The
\* long texts handed to the delta code are written with one token per run
\* of a byte and one token per newline, the form Canon yields.
Run(b, n) == b + 256 * (n - 1)

ByteOf(t) == t % 256

CountOf(t) == (t \div 256) + 1

\* slice::len of a byte string.
RECURSIVE ByteLen(_)
ByteLen(data) == IF data = <<>> THEN 0 ELSE CountOf(Head(data)) + ByteLen(Tail(data))

\* File-type bits of st_mode and the permission mask chmod(2) applies.
S_IFREG == 32768

S_IFDIR == 16384

S_IFLNK == 40960

PermMask == 4096

\* Permission bits: 0o644 for a newly written file, 0o755 for a new
\* directory, 0o777 for a symlink, 0o600 as the mode Chmod inputs request.
ModeFile == 420

ModeDir == 493

ModeLink == 511

ModePrivate == 384

ChmodModes == {ModePrivate}

Absent == [kind |-> "none", data |-> <<>>, mode |-> 0, target |-> None, mtime |-> "old"]

FileNode(data, mode, mtime) ==
    [kind |-> "file", data |-> data, mode |-> mode, target |-> None, mtime |-> mtime]

DirNode(mode) ==
    [kind |-> "dir", data |-> <<>>, mode |-> mode, target |-> None, mtime |-> "old"]

LinkNode(target) ==
    [kind |-> "link", data |-> <<>>, mode |-> ModeLink, target |-> Some(target), mtime |-> "old"]

Parent(p) == SubSeq(p, 1, Len(p) - 1)

IsPrefix(p, q) == Len(p) <= Len(q) /\ SubSeq(q, 1, Len(p)) = p

StrictlyUnder(p, q) == IsPrefix(p, q) /\ p # q

\* q with its prefix p replaced by r.
Rebase(q, p, r) == r \o SubSeq(q, Len(p) + 1, Len(q))

\* The node a path names without following a link at its last component
\* (lstat).  The root is the working directory itself.
Lstat(f, p) ==
    IF p = <<>> THEN DirNode(ModeDir) ELSE IF p \in Paths THEN f[p] ELSE Absent

\* The path a name resolves to when links are followed (stat, open): None
\* when a link dangles or loops.
RECURSIVE FollowN(_, _, _)
FollowN(f, p, fuel) ==
    IF Lstat(f, p).kind = "link"
    THEN IF fuel = 0 THEN None ELSE FollowN(f, Get(Lstat(f, p).target), fuel - 1)
    ELSE Some(p)

Follow(f, p) == FollowN(f, p, Cardinality(Paths))

\* The node a path names with links followed (stat); Absent if it dangles.
Stat(f, p) == IF IsSome(Follow(f, p)) THEN Lstat(f, Get(Follow(f, p))) ELSE Absent

\* Path::exists, Path::is_dir: both follow links.
Exists(f, p) == Stat(f, p).kind # "none"

IsDir(f, p) == Stat(f, p).kind = "dir"

\* st_mode as MetadataExt::mode returns it: file-type bits plus permissions.
StMode(n) ==
    (CASE n.kind = "file" -> S_IFREG
       [] n.kind = "dir" -> S_IFDIR
       [] n.kind = "link" -> S_IFLNK
       [] OTHER -> 0) + n.mode

\* std::fs results: the file system afterwards and "Ok", "Io" (the call
\* failed) or "OutOfModel" (the result names a path outside Paths).
FsOk(f) == [fs |-> f, e |-> "Ok"]

FsErr(f) == [fs |-> f, e |-> "Io"]

FsOut(f) == [fs |-> f, e |-> "OutOfModel"]

\* fs::create_dir: the parent must be a directory and the name unused.
CreateDir(f, p) ==
    IF p \in Paths /\ Lstat(f, p).kind = "none" /\ IsDir(f, Parent(p))
    THEN FsOk([f EXCEPT ![p] = DirNode(ModeDir)])
    ELSE FsErr(f)

\* fs::create_dir_all: missing ancestors are made first; an existing
\* directory (also behind a link) is accepted, anything else in the way fails.
RECURSIVE CreateDirAll(_, _)
CreateDirAll(f, p) ==
    IF p = <<>> \/ IsDir(f, p) THEN FsOk(f)
    ELSE IF Lstat(f, p).kind # "none" \/ p \notin Paths THEN FsErr(f)
    ELSE LET up == CreateDirAll(f, Parent(p))
         IN  IF up.e # "Ok" THEN up ELSE CreateDir(up.fs, p)

\* fs::read: the whole content of a regular file, links followed.
CanRead(f, p) == Stat(f, p).kind = "file"

ReadBytes(f, p) == Stat(f, p).data

\* fs::write: create or truncate, links followed (a dangling link's target
\* is created); permissions of an existing file are kept.
WriteFile(f, p, data) ==
    LET q == Follow(f, p)
    IN  IF ~IsSome(q) THEN FsErr(f)
        ELSE LET t == Get(q)
             IN  IF t \notin Paths THEN FsErr(f)
                 ELSE IF f[t].kind = "file"
                 THEN FsOk([f EXCEPT ![t] = FileNode(data, f[t].mode, "new")])
                 ELSE IF f[t].kind = "none" /\ IsDir(f, Parent(t))
                 THEN FsOk([f EXCEPT ![t] = FileNode(data, ModeFile, "new")])
                 ELSE FsErr(f)

\* fs::remove_file (unlink): removes a file or the link itself.
RemoveFile(f, p) ==
    IF p \in Paths /\ f[p].kind \in {"file", "link"}
    THEN FsOk([f EXCEPT ![p] = Absent])
    ELSE FsErr(f)

HasEntries(f, p) == \E q \in Paths : StrictlyUnder(p, q) /\ f[q].kind # "none"

\* fs::remove_dir (rmdir): an empty directory, not a link to one.
RemoveDir(f, p) ==
    IF p \in Paths /\ f[p].kind = "dir" /\ ~HasEntries(f, p)
    THEN FsOk([f EXCEPT ![p] = Absent])
    ELSE FsErr(f)

\* fs::remove_dir_all: the whole tree; of a link, the link only.
RemoveDirAll(f, p) ==
    IF p \notin Paths \/ f[p].kind \in {"none", "file"} THEN FsErr(f)
    ELSE IF f[p].kind = "link" THEN FsOk([f EXCEPT ![p] = Absent])
    ELSE FsOk([q \in Paths |-> IF IsPrefix(p, q) THEN Absent ELSE f[q]])

\* fs::rename: moves the node itself (a link is not followed) with all that
\* is under it; replaces a non-directory in the way; refuses to move a
\* directory into itself or over a non-directory.
Rename(f, s, d) ==
    LET n == Lstat(f, s)
        inTheWay == Lstat(f, d)
        moved == {q \in Paths : IsPrefix(s, q) /\ f[q].kind # "none"}
    IN  IF s \notin Paths \/ d \notin Paths \/ n.kind = "none" THEN FsErr(f)
        ELSE IF s = d THEN FsOk(f)
        ELSE IF ~IsDir(f, Parent(d)) \/ IsPrefix(s, d) THEN FsErr(f)
        ELSE IF inTheWay.kind = "dir" /\ (n.kind # "dir" \/ HasEntries(f, d)) THEN FsErr(f)
        ELSE IF inTheWay.kind \in {"file", "link"} /\ n.kind = "dir" THEN FsErr(f)
        ELSE IF \E q \in moved : Rebase(q, s, d) \notin Paths THEN FsOut(f)
        ELSE FsOk([q \in Paths |->
                 IF IsPrefix(d, q)
                 THEN LET from == Rebase(q, d, s)
                      IN  IF from \in Paths THEN f[from] ELSE Absent
                 ELSE IF IsPrefix(s, q) THEN Absent
                 ELSE f[q]])

\* fs::copy: the source (links followed) must be a regular file; the
\* destination is created or truncated, links followed, and gets the
\* source's permission bits.
CopyFile(f, s, d) ==
    IF ~CanRead(f, s) THEN FsErr(f)
    ELSE LET written(w) ==
                 IF w.e # "Ok" THEN w
                 ELSE FsOk([w.fs EXCEPT ![Get(Follow(w.fs, d))].mode = Stat(f, s).mode])
         IN  written(WriteFile(f, d, ReadBytes(f, s)))

\* fs::set_permissions (chmod): links followed, only the permission bits
\* of the requested mode are applied.
SetPermissions(f, p, mode) ==
    IF ~Exists(f, p) THEN FsErr(f)
    ELSE FsOk([f EXCEPT ![Get(Follow(f, p))].mode = mode % PermMask])

\* File::set_len on a file opened for writing: cut, or extend with zeros.
RECURSIVE Zeros(_)
Zeros(n) == IF n <= 0 THEN <<>> ELSE <<0>> \o Zeros(n - 1)

Resize(data, n) ==
    IF n <= Len(data) THEN SubSeq(data, 1, n) ELSE data \o Zeros(n - Len(data))

SetLen(f, p, n) ==
    IF ~CanRead(f, p) THEN FsErr(f)
    ELSE LET t == Get(Follow(f, p))
         IN  FsOk([f EXCEPT ![t] = FileNode(Resize(f[t].data, n), f[t].mode, "new")])

\* OpenOptions::append + write_all.
AppendFile(f, p, data) ==
    IF ~CanRead(f, p) THEN FsErr(f)
    ELSE LET t == Get(Follow(f, p))
         IN  FsOk([f EXCEPT ![t] = FileNode(f[t].data \o data, f[t].mode, "new")])

\* filetime::set_file_mtime: links followed; kept for regular files only.
SetMtime(f, p, mtime) ==
    IF ~Exists(f, p) THEN FsErr(f)
    ELSE LET t == Get(Follow(f, p))
         IN  IF f[t].kind = "file" THEN FsOk([f EXCEPT ![t].mtime = mtime]) ELSE FsOk(f)

\* std::os::unix::fs::symlink: the name must be unused, dangling links included.
MakeSymlink(f, target, p) ==
    IF p \in Paths /\ f[p].kind = "none" /\ IsDir(f, Parent(p))
    THEN FsOk([f EXCEPT ![p] = LinkNode(target)])
    ELSE FsErr(f)

\* ------------------------------------------------------------------------
\* Content store (content_store.rs)
\* ------------------------------------------------------------------------

\* A blob is either file bytes or the manifest of a recursive rmdir (the
\* JSON list of (relative path, hash) pairs); both shapes carry both fields.
BytesBlob(data) == [kind |-> "bytes", bytes |-> data, manifest |-> <<>>, delta |-> None]

ManifestBlob(entries) ==
    [kind |-> "manifest", bytes |-> <<>>, manifest |-> entries, delta |-> None]

\* Delta::into_bytes of a delta: the JSON of the Delta struct, which
\* Delta::from_bytes reads back.
DeltaBlob(d) == [kind |-> "delta", bytes |-> <<>>, manifest |-> <<>>, delta |-> Some(d)]

\* What a blob file holds when it no longer decompresses (compression is
\* on by default): GzDecoder's read fails on it.
Undecodable == [kind |-> "damaged", bytes |-> <<>>, manifest |-> <<>>, delta |-> None]

\* ContentHash::from_bytes: SHA-256 is taken to be injective on the blobs
\* that occur, so the digest is written as the blob it was computed from.
HashOf(blob) == <<"sha256", blob>>

\* ContentStore::exists / content_path(hash).exists().
StoreHas(cs, h) == \E e \in cs : e.hash = h

\* store that writes an empty file at the address: a faulty variant,
\* against which C22 is tried.
StoreBlobEmpty(cs, blob) ==
    IF StoreHas(cs, HashOf(blob)) THEN cs
    ELSE cs \cup {[hash |-> HashOf(blob), content |-> BytesBlob(<<>>)]}

\* ContentStore::store: writes the blob at its address unless the address
\* is already taken (deduplication).
StoreBlob(cs, blob) ==
    IF StoreHas(cs, HashOf(blob)) THEN cs
    ELSE cs \cup {[hash |-> HashOf(blob), content |-> blob]}

\* What retrieve returns: the content when e is "Ok", the two hashes of a
\* ContentIntegrityError otherwise.
Retrieved(e, content, expected, actual) ==
    [e |-> e, content |-> content, expected |-> expected, actual |-> actual]

\* retrieve that answers with empty content when nothing is stored at the
\* address: a faulty variant, against which C19 is tried.
RetrieveMissingAsEmpty(cs, h) ==
    IF ~StoreHas(cs, h) THEN Retrieved("Ok", BytesBlob(<<>>), None, None)
    ELSE LET ent == CHOOSE e \in cs : e.hash = h
         IN  IF HashOf(ent.content) # h
             THEN Retrieved("ContentIntegrityError", BytesBlob(<<>>),
                            Some(h), Some(HashOf(ent.content)))
             ELSE Retrieved("Ok", ent.content, None, None)

\* retrieve without the integrity check: a faulty variant, against which
\* C23 is tried.
RetrieveUnverified(cs, h) ==
    IF ~StoreHas(cs, h) THEN Retrieved("FileNotFound", BytesBlob(<<>>), None, None)
    ELSE Retrieved("Ok", (CHOOSE e \in cs : e.hash = h).content, None, None)

\* ContentStore::retrieve: FileNotFound when nothing is stored at the
\* address, the io::Error of a file that does not decompress,
\* ContentIntegrityError when what is stored does not hash to the address.
Retrieve(cs, h) ==
    IF ~StoreHas(cs, h) THEN Retrieved("FileNotFound", BytesBlob(<<>>), None, None)
    ELSE LET ent == CHOOSE e \in cs : e.hash = h
         IN  IF ent.content = Undecodable
             THEN Retrieved("Io", BytesBlob(<<>>), None, None)
             ELSE IF HashOf(ent.content) # h
             THEN Retrieved("ContentIntegrityError", BytesBlob(<<>>),
                            Some(h), Some(HashOf(ent.content)))
             ELSE Retrieved("Ok", ent.content, None, None)

\* ------------------------------------------------------------------------
\* Delta storage (delta.rs)
\* ------------------------------------------------------------------------

\* Below this size of the original a delta is always a full copy.
DELTA_THRESHOLD == 4096

\* How many leading bytes is_likely_text samples.
SAMPLE_LIMIT == 8192

Least(a, b) == IF a <= b THEN a ELSE b

Most(a, b) == IF a >= b THEN a ELSE b

\* is_likely_text over the first `room` bytes: a null byte anywhere in the
\* sample, and the number of other control bytes in it.
RECURSIVE HasNull(_, _)
HasNull(content, room) ==
    /\ content # <<>>
    /\ room > 0
    /\ \/ ByteOf(Head(content)) = 0
       \/ HasNull(Tail(content), room - CountOf(Head(content)))

RECURSIVE NonTextCount(_, _)
NonTextCount(content, room) ==
    IF content = <<>> \/ room <= 0 THEN 0
    ELSE LET b == ByteOf(Head(content))
             taken == Least(CountOf(Head(content)), room)
         IN  (IF b < 32 /\ b \notin {9, 10, 13} THEN taken ELSE 0)
                 + NonTextCount(Tail(content), room - taken)

\* is_likely_text: no null byte and fewer than 10% control bytes in the
\* first 8 KiB.
is_likely_text(content) ==
    \/ content = <<>>
    \/ LET sample_size == Least(ByteLen(content), SAMPLE_LIMIT)
       IN  /\ ~HasNull(content, sample_size)
           /\ 10 * NonTextCount(content, sample_size) < sample_size

\* std::str::from_utf8 on the byte strings that occur: every byte below 128
\* is valid, and strings holding a byte from 128 up are taken to be invalid.
Utf8(data) == \A i \in 1..Len(data) : ByteOf(data[i]) < 128

\* Adjacent tokens of one byte become one run, newlines excepted.
RECURSIVE Canon(_)
Canon(data) ==
    IF Len(data) < 2 THEN data
    ELSE IF ByteOf(data[1]) = ByteOf(data[2]) /\ ByteOf(data[1]) # 10
    THEN Canon(<<data[1] + 256 * CountOf(data[2])>> \o SubSeq(data, 3, Len(data)))
    ELSE <<data[1]>> \o Canon(Tail(data))

\* The pieces between the newline bytes of a string, the piece after the
\* last newline included.
RECURSIVE SplitNewline(_)
SplitNewline(data) ==
    IF \A i \in 1..Len(data) : data[i] # 10 THEN <<data>>
    ELSE LET k == CHOOSE i \in 1..Len(data) :
                      data[i] = 10 /\ \A j \in 1..(i - 1) : data[j] # 10
         IN  <<SubSeq(data, 1, k - 1)>> \o SplitNewline(SubSeq(data, k + 1, Len(data)))

\* A newline-terminated line without the carriage return before the newline.
StripCr(line) ==
    IF line = <<>> \/ ByteOf(line[Len(line)]) # 13 THEN line
    ELSE IF CountOf(line[Len(line)]) = 1 THEN SubSeq(line, 1, Len(line) - 1)
    ELSE [line EXCEPT ![Len(line)] = line[Len(line)] - 256]

\* str::lines: split at "\n" or "\r\n"; the final line ending is optional,
\* so what follows the last newline is a line only when it is not empty.
Lines(data) ==
    LET pieces == SplitNewline(data)
        n == Len(pieces)
    IN  [i \in 1..(IF pieces[n] = <<>> THEN n - 1 ELSE n) |->
            IF i < n THEN StripCr(pieces[i]) ELSE pieces[i]]

\* The dynamic-programming table of compute_lcs_diff: the length of the
\* longest common subsequence of the first i original and first j new lines.
RECURSIVE lcs(_, _, _, _)
lcs(original, new, i, j) ==
    IF i = 0 \/ j = 0 THEN 0
    ELSE IF original[i] = new[j] THEN lcs(original, new, i - 1, j - 1) + 1
    ELSE Most(lcs(original, new, i - 1, j), lcs(original, new, i, j - 1))

DiffLine(kind, text) == [kind |-> kind, text |-> text]

\* The backtrack of compute_lcs_diff from (i, j), already reversed: the
\* changes in file order, each with its 0-based original and new index.
RECURSIVE changes(_, _, _, _)
changes(original, new, i, j) ==
    IF i = 0 /\ j = 0 THEN <<>>
    ELSE IF i > 0 /\ j > 0 /\ original[i] = new[j]
    THEN Append(changes(original, new, i - 1, j - 1),
                [orig_idx |-> i - 1, new_idx |-> j - 1,
                 line |-> DiffLine("Context", original[i])])
    ELSE IF j > 0 /\ (i = 0 \/ lcs(original, new, i, j - 1) >= lcs(original, new, i - 1, j))
    THEN Append(changes(original, new, i, j - 1),
                [orig_idx |-> i, new_idx |-> j - 1, line |-> DiffLine("Added", new[j])])
    ELSE Append(changes(original, new, i - 1, j),
                [orig_idx |-> i - 1, new_idx |-> j, line |-> DiffLine("Removed", original[i])])

\* usize::saturating_sub.
saturating_sub(a, b) == IF a >= b THEN a - b ELSE 0

\* compute_lcs_diff: one hunk, opened at the first added or removed line
\* with its starts set three lines back; context lines that come before
\* the hunk is opened are not put into it, and the counts follow the last
\* line pushed.
compute_lcs_diff(original, new) ==
    LET all == changes(original, new, Len(original), Len(new))
        changed == {k \in 1..Len(all) : all[k].line.kind # "Context"}
    IN  IF changed = {} THEN [hunks |-> <<>>]
        ELSE LET first == CHOOSE k \in changed : \A m \in changed : k <= m
                 original_start == saturating_sub(all[first].orig_idx, 3)
                 new_start == saturating_sub(all[first].new_idx, 3)
             IN  [hunks |->
                    <<[original_start |-> original_start,
                       original_count |-> all[Len(all)].orig_idx - original_start + 1,
                       new_start |-> new_start,
                       new_count |-> all[Len(all)].new_idx - new_start + 1,
                       lines |-> SubSeq([k \in 1..Len(all) |-> all[k].line],
                                        first, Len(all))]>>]

\* The sum of a sequence of numbers.
RECURSIVE Total(_)
Total(s) == IF s = <<>> THEN 0 ELSE Head(s) + Total(Tail(s))

\* How many characters serde_json writes for a number and for the bytes of
\* a string (quotes excluded): two for a quote, a backslash and the
\* control characters with a short escape, six for the other controls.
RECURSIVE Digits(_)
Digits(n) == IF n < 10 THEN 1 ELSE 1 + Digits(n \div 10)

EscapedLen(b) ==
    IF b \in {34, 92, 8, 9, 10, 12, 13} THEN 2 ELSE IF b < 32 THEN 6 ELSE 1

JsonStringLen(text) ==
    Total([i \in 1..Len(text) |-> CountOf(text[i]) * EscapedLen(ByteOf(text[i]))])

\* serde_json::to_vec(&diff).len():
\*   {"hunks":[H,...]}  with H =
\*   {"original_start":N,"original_count":N,"new_start":N,"new_count":N,"lines":[L,...]}
\*   and L = {"Context":"..."} | {"Removed":"..."} | {"Added":"..."}.
JsonLineLen(l) == (IF l.kind = "Added" THEN 12 ELSE 14) + JsonStringLen(l.text)

JsonHunkLen(h) ==
    74 + Digits(h.original_start) + Digits(h.original_count)
       + Digits(h.new_start) + Digits(h.new_count)
       + Total([k \in 1..Len(h.lines) |-> JsonLineLen(h.lines[k])])
       + Most(Len(h.lines) - 1, 0)

JsonDiffLen(diff) ==
    12 + Total([k \in 1..Len(diff.hunks) |-> JsonHunkLen(diff.hunks[k])])
       + Most(Len(diff.hunks) - 1, 0)

\* Delta::full.
full(content) ==
    [encoding |-> "Full", data |-> content, original_size |-> 0,
     new_size |-> ByteLen(content)]

\* Delta::is_full.
is_full(delta) == delta.encoding = "Full"

\* Delta::compute_line_diff; data holds the LineDiff that the JSON bytes
\* encode.
compute_line_diff(original, new) ==
    IF ~Utf8(original) \/ ~Utf8(new) THEN None
    ELSE Some([encoding |-> "LineDiff",
               data |-> compute_lcs_diff(Lines(original), Lines(new)),
               original_size |-> ByteLen(original), new_size |-> ByteLen(new)])

\* Delta::compute.  A delta is kept when its serialized size is below half
\* the original and below the new content.  The edit list of the binary
\* branch is not modelled: its delta carries no data.
compute(original, new) ==
    IF ByteLen(original) < DELTA_THRESHOLD THEN full(new)
    ELSE IF is_likely_text(original) /\ is_likely_text(new)
    THEN LET kept(delta) ==
                 IF /\ IsSome(delta)
                    /\ JsonDiffLen(Get(delta).data) < ByteLen(original) \div 2
                    /\ JsonDiffLen(Get(delta).data) < ByteLen(new)
                 THEN Get(delta)
                 ELSE full(new)
         IN  kept(compute_line_diff(original, new))
    ELSE [encoding |-> "BlockDiff", data |-> <<>>,
          original_size |-> ByteLen(original), new_size |-> ByteLen(new)]

\* The result lines of apply_line_diff from original line orig_line
\* (0-based) on: the original lines up to the hunk, the hunk's context and
\* added lines, then on from original_start + original_count.
NotRemoved(l) == l.kind # "Removed"

RECURSIVE result_lines(_, _, _)
result_lines(hunks, original_lines, orig_line) ==
    IF hunks = <<>> THEN SubSeq(original_lines, orig_line + 1, Len(original_lines))
    ELSE LET hunk == Head(hunks)
             pushed == SelectSeq(hunk.lines, NotRemoved)
         IN  SubSeq(original_lines, orig_line + 1,
                    Least(hunk.original_start, Len(original_lines)))
                 \o [k \in 1..Len(pushed) |-> pushed[k].text]
                 \o result_lines(Tail(hunks), original_lines,
                                 hunk.original_start + hunk.original_count)

\* [String]::join.
RECURSIVE Join(_, _)
Join(lines, sep) ==
    IF lines = <<>> THEN <<>>
    ELSE IF Len(lines) = 1 THEN lines[1]
    ELSE lines[1] \o sep \o Join(Tail(lines), sep)

\* Delta::apply_line_diff: the line ending and the final newline follow the
\* string the delta is applied to.
apply_line_diff(delta, original) ==
    IF ~Utf8(original) THEN None
    ELSE LET line_ending ==
                 IF \E i \in 1..(Len(original) - 1) :
                        ByteOf(original[i]) = 13 /\ original[i + 1] = 10
                 THEN <<13, 10>> ELSE <<10>>
             result == Join(result_lines(delta.data.hunks, Lines(original), 0), line_ending)
         IN  Some(Canon(IF original # <<>> /\ original[Len(original)] = 10
                        THEN result \o line_ending ELSE result))

\* Delta::apply, for the encodings whose data are modelled.
apply(delta, original) ==
    IF delta.encoding = "Full" THEN Some(delta.data)
    ELSE IF delta.encoding = "LineDiff" THEN apply_line_diff(delta, original)
    ELSE None

\* ------------------------------------------------------------------------
\* Journal records (metadata.rs)
\* ------------------------------------------------------------------------

\* FileMetadata::from_path: symlink_metadata, so a link is described
\* itself: its own mode, the length of its target as size.
FromPath(f, p) ==
    LET n == Lstat(f, p)
    IN  [permissions |-> StMode(n),
         size |-> IF n.kind = "link" THEN Len(Get(n.target)) ELSE ByteLen(n.data),
         modified |-> n.mtime,
         is_symlink |-> n.kind = "link",
         symlink_target |-> n.target]

\* apply that leaves the permissions as they are: a faulty variant,
\* against which C27 is tried.
ApplyMetadataNoop(f, meta, p) == FsOk(f)

\* FileMetadata::apply: set_permissions with the captured mode.
ApplyMetadata(f, meta, p) == SetPermissions(f, p, meta.permissions)

\* OperationMetadata::new: a fresh id, nothing captured, not undone.
NewMetadata(id, opType, path) ==
    [id |-> id, op_type |-> opType, path |-> path, path_secondary |-> None,
     content_hash |-> None, new_content_hash |-> None,
     original_metadata |-> None, new_metadata |-> None,
     transaction_id |-> None, undone |-> FALSE, undo_operation_id |-> None,
     is_delta |-> FALSE]

\* with_transaction_id, applied when the executor carries a transaction id.
Stamp(m, tid) == IF IsSome(tid) THEN [m EXCEPT !.transaction_id = tid] ELSE m

\* MetadataStore::get: the first record with the id.
HasRecord(log, id) == \E i \in 1..Len(log) : log[i].id = id

IndexOf(log, id) == CHOOSE i \in 1..Len(log) : log[i].id = id /\ \A j \in 1..(i - 1) : log[j].id # id

GetRecord(log, id) == log[IndexOf(log, id)]

\* mark_undone that sets the flag and forgets the id of the undo record: a
\* faulty variant, against which C14 is tried.
MarkUndoneFlagOnly(log, id, undoId) ==
    IF HasRecord(log, id)
    THEN [log EXCEPT ![IndexOf(log, id)].undone = TRUE]
    ELSE log

\* append that puts the record in front of the log: a faulty variant,
\* against which C31 is tried.
DonePrepending(w, f, m) ==
    [w |-> [w EXCEPT !.fs = f, !.log = <<m>> \o w.log, !.nid = w.nid + 1],
     err |-> "Ok", meta |-> Some(m)]

\* MetadataStore::last_undoable: the newest record whose undone flag is not
\* set, whatever kind of record it is.
last_undoable(log) ==
    LET open == {i \in 1..Len(log) : ~log[i].undone}
    IN  IF open = {} THEN None
        ELSE Some(log[CHOOSE i \in open : \A k \in open : k <= i])

\* prune that drops the newest records instead of the oldest: a faulty
\* variant, against which C32 is tried.
prune_newest(log, keep) ==
    IF Len(log) <= keep THEN [log |-> log, removed |-> 0]
    ELSE [log |-> SubSeq(log, 1, keep), removed |-> Len(log) - keep]

\* MetadataStore::prune: drop the oldest records beyond the last `keep`;
\* returns the log and the number of records removed.
prune(log, keep) ==
    IF Len(log) <= keep THEN [log |-> log, removed |-> 0]
    ELSE [log |-> SubSeq(log, Len(log) - keep + 1, Len(log)),
          removed |-> Len(log) - keep]

\* MetadataStore::mark_undone: sets the two undo fields of the record, if found.
MarkUndone(log, id, undoId) ==
    IF HasRecord(log, id)
    THEN [log EXCEPT ![IndexOf(log, id)].undone = TRUE,
                     ![IndexOf(log, id)].undo_operation_id = Some(undoId)]
    ELSE log

\* ------------------------------------------------------------------------
\* Operation executor (operations.rs)
\* ------------------------------------------------------------------------

\* What the executor works on: the file system, the content store, the
\* journal and the source of fresh record ids.
World(f, c, l, n) == [fs |-> f, cs |-> c, log |-> l, nid |-> n]

\* Result of execute/undo: the world afterwards, "Ok" or the JanusError
\* kind, and the record returned.
Fail(w, e) == [w |-> w, err |-> e, meta |-> None]

\* MetadataStore::append followed by Ok(metadata).
Done(w, f, m) ==
    [w |-> [w EXCEPT !.fs = f, !.log = Append(w.log, m), !.nid = w.nid + 1],
     err |-> "Ok", meta |-> Some(m)]

FreshId(w) == <<"op", w.nid>>

\* An std::io error kept as Io, a result outside Paths kept as such.
IoErr(r) == IF r.e = "OutOfModel" THEN "OutOfModel" ELSE "Io"

\* The common tail of every execute_*: the std::fs call r, `?` on its
\* result, then metadata_store.append(metadata) and Ok(metadata).  w is the
\* world as the earlier statements left it.
Finish(w, r, m) == IF r.e # "Ok" THEN Fail(w, IoErr(r)) ELSE Done(w, r.fs, m)

\* OperationExecutor::execute_delete.
execute_delete(w, tid, path) ==
    IF ~Exists(w.fs, path) THEN Fail(w, "FileNotFound")
    ELSE IF ~CanRead(w.fs, path) THEN Fail(w, "Io")
    ELSE LET blob == BytesBlob(ReadBytes(w.fs, path))
         IN  Finish([w EXCEPT !.cs = StoreBlob(w.cs, blob)],
                    RemoveFile(w.fs, path),
                    Stamp([NewMetadata(FreshId(w), "Delete", path) EXCEPT
                             !.content_hash = Some(HashOf(blob)),
                             !.original_metadata = Some(FromPath(w.fs, path))], tid))

\* OperationExecutor::execute_modify; use_experimental_delta is whether
\* JANUSKEY_USE_DELTA is set.  With it the reverse delta (from the new
\* content back to the original) is stored when it is not a full copy.
execute_modify_with(w, tid, path, new_content, use_experimental_delta) ==
    IF ~Exists(w.fs, path) THEN Fail(w, "FileNotFound")
    ELSE IF ~CanRead(w.fs, path) THEN Fail(w, "Io")
    ELSE LET stored(blob) ==
                 IF blob.kind = "delta" /\ Get(blob.delta).encoding = "BlockDiff"
                 THEN Fail(w, "OutOfModel")
                 ELSE Finish([w EXCEPT !.cs = StoreBlob(w.cs, blob)],
                             WriteFile(w.fs, path, new_content),
                             Stamp([NewMetadata(FreshId(w), "Modify", path) EXCEPT
                                      !.content_hash = Some(HashOf(blob)),
                                      !.new_content_hash = Some(HashOf(BytesBlob(new_content))),
                                      !.original_metadata = Some(FromPath(w.fs, path)),
                                      !.is_delta = blob.kind = "delta"], tid))
             reversed(reverse_delta) ==
                 IF ~is_full(reverse_delta) THEN stored(DeltaBlob(reverse_delta))
                 ELSE stored(BytesBlob(ReadBytes(w.fs, path)))
         IN  IF use_experimental_delta
             THEN reversed(compute(new_content, ReadBytes(w.fs, path)))
             ELSE stored(BytesBlob(ReadBytes(w.fs, path)))

\* execute_modify with delta storage off (the default: JANUSKEY_USE_DELTA
\* unset): the full original content is stored.
execute_modify(w, tid, path, new_content) ==
    execute_modify_with(w, tid, path, new_content, FALSE)

\* OperationExecutor::execute_move.
execute_move(w, tid, source, destination) ==
    IF ~Exists(w.fs, source) THEN Fail(w, "FileNotFound")
    ELSE IF Exists(w.fs, destination) THEN Fail(w, "PathExists")
    ELSE LET made(mk) ==
                 IF mk.e # "Ok" THEN Fail([w EXCEPT !.fs = mk.fs], IoErr(mk))
                 ELSE Finish([w EXCEPT !.fs = mk.fs],
                             Rename(mk.fs, source, destination),
                             Stamp([NewMetadata(FreshId(w), "Move", source) EXCEPT
                                      !.path_secondary = Some(destination),
                                      !.original_metadata =
                                          Some(FromPath(mk.fs, source))], tid))
         IN  made(CreateDirAll(w.fs, Parent(destination)))

\* OperationExecutor::execute_copy.
execute_copy(w, tid, source, destination) ==
    IF ~Exists(w.fs, source) THEN Fail(w, "FileNotFound")
    ELSE IF Exists(w.fs, destination) THEN Fail(w, "PathExists")
    ELSE LET made(mk) ==
                 IF mk.e # "Ok" THEN Fail([w EXCEPT !.fs = mk.fs], IoErr(mk))
                 ELSE Finish([w EXCEPT !.fs = mk.fs],
                             CopyFile(mk.fs, source, destination),
                             Stamp([NewMetadata(FreshId(w), "Copy", source) EXCEPT
                                      !.path_secondary = Some(destination)], tid))
         IN  made(CreateDirAll(w.fs, Parent(destination)))

\* OperationExecutor::execute_chmod.
execute_chmod(w, tid, path, new_mode) ==
    IF ~Exists(w.fs, path) THEN Fail(w, "FileNotFound")
    ELSE LET file_metadata == FromPath(w.fs, path)
         IN  Finish(w,
                    SetPermissions(w.fs, path, new_mode),
                    Stamp([NewMetadata(FreshId(w), "Chmod", path) EXCEPT
                             !.original_metadata = Some(file_metadata),
                             !.new_metadata =
                                 Some([file_metadata EXCEPT !.permissions = new_mode])],
                          tid))

\* OperationExecutor::execute_create.
execute_create(w, tid, path, content) ==
    IF Exists(w.fs, path) THEN Fail(w, "PathExists")
    ELSE LET made(mk) ==
                 IF mk.e # "Ok" THEN Fail([w EXCEPT !.fs = mk.fs], IoErr(mk))
                 ELSE Finish([w EXCEPT !.fs = mk.fs],
                             WriteFile(mk.fs, path, content),
                             Stamp([NewMetadata(FreshId(w), "Create", path) EXCEPT
                                      !.new_content_hash =
                                          Some(HashOf(BytesBlob(content)))], tid))
         IN  made(CreateDirAll(w.fs, Parent(path)))

\* OperationExecutor::execute_mkdir.
execute_mkdir(w, tid, path, parents) ==
    IF Exists(w.fs, path) THEN Fail(w, "PathExists")
    ELSE LET made(mk) ==
                 IF mk.e # "Ok" THEN Fail([w EXCEPT !.fs = mk.fs], IoErr(mk))
                 ELSE Done(w, mk.fs, Stamp(NewMetadata(FreshId(w), "Mkdir", path), tid))
         IN  made(IF parents THEN CreateDirAll(w.fs, path) ELSE CreateDir(w.fs, path))

\* OperationExecutor::execute_rmdir (empty directory only).
execute_rmdir(w, tid, path) ==
    IF ~Exists(w.fs, path) THEN Fail(w, "DirectoryNotFound")
    ELSE IF ~IsDir(w.fs, path) THEN Fail(w, "OperationFailed")
    ELSE Finish(w,
                RemoveDir(w.fs, path),
                Stamp([NewMetadata(FreshId(w), "Rmdir", path) EXCEPT
                         !.original_metadata = Some(FromPath(w.fs, path))], tid))

\* A set of paths as a list, in the order the directory walk yields them
\* (an order the restore does not depend on).
RECURSIVE SetToSeq(_)
SetToSeq(S) ==
    IF S = {} THEN <<>>
    ELSE LET x == CHOOSE y \in S : \A z \in S : Len(y) <= Len(z)
         IN  <<x>> \o SetToSeq(S \ {x})

\* A walk that lists only the files directly in the directory: a faulty
\* variant, against which C30 is tried.
WalkFilesShallow(f, path) ==
    SetToSeq({q \in Paths : Parent(q) = Get(Follow(f, path)) /\ f[q].kind = "file"})

\* The regular files WalkDir finds under a directory (links are not
\* followed below the root and are not files).
WalkFiles(f, path) ==
    SetToSeq({q \in Paths : StrictlyUnder(Get(Follow(f, path)), q) /\ f[q].kind = "file"})

\* The manifest of a recursive rmdir: (relative path, content hash) per file.
ManifestOf(f, path, files) ==
    [i \in 1..Len(files) |->
        [rel |-> SubSeq(files[i], Len(Get(Follow(f, path))) + 1, Len(files[i])),
         hash |-> HashOf(BytesBlob(f[files[i]].data))]]

RECURSIVE StoreAll(_, _, _)
StoreAll(cs, f, files) ==
    IF files = <<>> THEN cs
    ELSE StoreAll(StoreBlob(cs, BytesBlob(f[Head(files)].data)), f, Tail(files))

\* OperationExecutor::execute_rmdir_recursive.
execute_rmdir_recursive(w, tid, path) ==
    IF ~Exists(w.fs, path) THEN Fail(w, "DirectoryNotFound")
    ELSE IF ~IsDir(w.fs, path) THEN Fail(w, "OperationFailed")
    ELSE LET walked(files, manifest) ==
                 Finish([w EXCEPT !.cs = StoreBlob(StoreAll(w.cs, w.fs, files), manifest)],
                        RemoveDirAll(w.fs, path),
                        Stamp([NewMetadata(FreshId(w), "Rmdir", path) EXCEPT
                                 !.original_metadata = Some(FromPath(w.fs, path)),
                                 !.content_hash = Some(HashOf(manifest))], tid))
         IN  walked(WalkFiles(w.fs, path),
                    ManifestBlob(ManifestOf(w.fs, path, WalkFiles(w.fs, path))))

\* OperationExecutor::execute_symlink.
execute_symlink(w, tid, target, link_path) ==
    IF Exists(w.fs, link_path) THEN Fail(w, "PathExists")
    ELSE LET made(mk) ==
                 IF mk.e # "Ok" THEN Fail([w EXCEPT !.fs = mk.fs], IoErr(mk))
                 ELSE Finish([w EXCEPT !.fs = mk.fs],
                             MakeSymlink(mk.fs, target, link_path),
                             Stamp([NewMetadata(FreshId(w), "Symlink", link_path) EXCEPT
                                      !.path_secondary = Some(target)], tid))
         IN  made(CreateDirAll(w.fs, Parent(link_path)))

\* OperationExecutor::execute_append.
execute_append(w, tid, path, content) ==
    IF ~Exists(w.fs, path) THEN Fail(w, "FileNotFound")
    ELSE Finish([w EXCEPT !.cs = StoreBlob(w.cs, BytesBlob(content))],
                AppendFile(w.fs, path, content),
                Stamp([NewMetadata(FreshId(w), "Append", path) EXCEPT
                         !.original_metadata = Some(FromPath(w.fs, path)),
                         !.content_hash = Some(HashOf(BytesBlob(content)))], tid))

\* OperationExecutor::execute_truncate.
execute_truncate(w, tid, path, new_size) ==
    IF ~Exists(w.fs, path) THEN Fail(w, "FileNotFound")
    ELSE IF ~CanRead(w.fs, path) THEN Fail(w, "Io")
    ELSE LET blob == BytesBlob(ReadBytes(w.fs, path))
         IN  Finish([w EXCEPT !.cs = StoreBlob(w.cs, blob)],
                    SetLen(w.fs, path, new_size),
                    Stamp([NewMetadata(FreshId(w), "Truncate", path) EXCEPT
                             !.original_metadata = Some(FromPath(w.fs, path)),
                             !.content_hash = Some(HashOf(blob))], tid))

\* execute_touch that creates a missing file whether or not it was asked
\* to: a faulty variant, against which C13 is tried.
execute_touch_creating(w, tid, path, create) ==
    IF Exists(w.fs, path)
    THEN Finish(w,
                SetMtime(w.fs, path, "new"),
                Stamp([NewMetadata(FreshId(w), "Touch", path) EXCEPT
                         !.original_metadata = Some(FromPath(w.fs, path))], tid))
    ELSE Finish(w,
                WriteFile(w.fs, path, <<>>),
                Stamp(NewMetadata(FreshId(w), "Touch", path), tid))

\* OperationExecutor::execute_touch.
execute_touch(w, tid, path, create) ==
    IF Exists(w.fs, path)
    THEN Finish(w,
                SetMtime(w.fs, path, "new"),
                Stamp([NewMetadata(FreshId(w), "Touch", path) EXCEPT
                         !.original_metadata = Some(FromPath(w.fs, path))], tid))
    ELSE IF create
    THEN Finish(w,
                WriteFile(w.fs, path, <<>>),
                Stamp(NewMetadata(FreshId(w), "Touch", path), tid))
    ELSE Fail(w, "FileNotFound")

\* OperationExecutor::undo_delete: execute(Create) with the stored content,
\* then reapply the captured permissions.
undo_delete(w, tid, original) ==
    IF ~IsSome(original.content_hash) THEN Fail(w, "MetadataCorrupted")
    ELSE LET created(ex) ==
                 IF ex.err # "Ok" \/ ~IsSome(original.original_metadata) THEN ex
                 ELSE LET applied(ap) ==
                              IF ap.e # "Ok" THEN Fail(ex.w, IoErr(ap))
                              ELSE [ex EXCEPT !.w.fs = ap.fs]
                      IN  applied(ApplyMetadata(ex.w.fs, Get(original.original_metadata),
                                                original.path))
             retrieved(got) ==
                 IF got.e # "Ok" THEN Fail(w, got.e)
                 ELSE created(execute_create(w, tid, original.path, got.content.bytes))
         IN  retrieved(Retrieve(w.cs, Get(original.content_hash)))

\* OperationExecutor::undo_modify: the stored blob is the full original
\* content, or with is_delta the reverse delta, which is applied to what
\* the file holds now.  The undo record always holds full content.
undo_modify(w, tid, original) ==
    IF ~IsSome(original.content_hash) THEN Fail(w, "MetadataCorrupted")
    ELSE LET rebuilt(original_content) ==
                 IF ~IsSome(original_content) THEN Fail(w, "MetadataCorrupted")
                 ELSE IF Lstat(w.fs, original.path).kind = "none"
                         \/ ~CanRead(w.fs, original.path)
                 THEN Fail(w, "Io")
                 ELSE LET current == BytesBlob(ReadBytes(w.fs, original.path))
                      IN  Finish([w EXCEPT !.cs = StoreBlob(w.cs, current)],
                                 WriteFile(w.fs, original.path, Get(original_content)),
                                 Stamp([NewMetadata(FreshId(w), "Modify", original.path) EXCEPT
                                          !.content_hash = Some(HashOf(current)),
                                          !.new_content_hash =
                                              Some(HashOf(BytesBlob(Get(original_content)))),
                                          !.original_metadata =
                                              Some(FromPath(w.fs, original.path)),
                                          !.is_delta = FALSE], tid))
             retrieved(got) ==
                 IF got.e # "Ok" THEN Fail(w, got.e)
                 ELSE IF ~original.is_delta THEN rebuilt(Some(got.content.bytes))
                 ELSE IF ~CanRead(w.fs, original.path) THEN Fail(w, "Io")
                 ELSE IF got.content.kind # "delta" THEN Fail(w, "MetadataCorrupted")
                 ELSE rebuilt(apply(Get(got.content.delta), ReadBytes(w.fs, original.path)))
         IN  retrieved(Retrieve(w.cs, Get(original.content_hash)))

\* OperationExecutor::undo_move: execute(Move) from the destination back
\* to the source.
undo_move(w, tid, original) ==
    IF ~IsSome(original.path_secondary) THEN Fail(w, "MetadataCorrupted")
    ELSE execute_move(w, tid, Get(original.path_secondary), original.path)

\* undo_copy that removes the source instead of the copy: a faulty
\* variant, against which C29 is tried.
undo_copy_removing_source(w, tid, original) ==
    IF ~IsSome(original.path_secondary) THEN Fail(w, "MetadataCorrupted")
    ELSE execute_delete(w, tid, original.path)

\* OperationExecutor::undo_copy: execute(Delete) on the copy.
undo_copy(w, tid, original) ==
    IF ~IsSome(original.path_secondary) THEN Fail(w, "MetadataCorrupted")
    ELSE execute_delete(w, tid, Get(original.path_secondary))

\* OperationExecutor::undo_chmod: execute(Chmod) with the captured st_mode.
undo_chmod(w, tid, original) ==
    IF ~IsSome(original.original_metadata) THEN Fail(w, "MetadataCorrupted")
    ELSE execute_chmod(w, tid, original.path, Get(original.original_metadata).permissions)

\* OperationExecutor::undo_create: execute(Delete) on the created file.
undo_create(w, tid, original) == execute_delete(w, tid, original.path)

\* OperationExecutor::undo_mkdir: execute(Rmdir) on the created directory.
undo_mkdir(w, tid, original) == execute_rmdir(w, tid, original.path)

\* The restore loop of undo_rmdir: per manifest entry, make the parent
\* directories, fetch the content, write the file.  Stops at the first
\* failure with what was written so far.
RECURSIVE RestoreFiles(_, _, _, _)
RestoreFiles(f, cs, path, entries) ==
    IF entries = <<>> THEN [fs |-> f, e |-> "Ok"]
    ELSE LET written(wr) ==
                 IF wr.e # "Ok" THEN [fs |-> wr.fs, e |-> IoErr(wr)]
                 ELSE RestoreFiles(wr.fs, cs, path, Tail(entries))
             made(mk, got) ==
                 IF mk.e # "Ok" THEN [fs |-> mk.fs, e |-> IoErr(mk)]
                 ELSE IF got.e # "Ok" THEN [fs |-> mk.fs, e |-> got.e]
                 ELSE written(WriteFile(mk.fs, path \o Head(entries).rel, got.content.bytes))
         IN  made(CreateDirAll(f, Parent(path \o Head(entries).rel)),
                  Retrieve(cs, Head(entries).hash))

\* OperationExecutor::undo_rmdir: with a manifest, recreate the directory
\* and the files it lists and record a Mkdir; without, execute(Mkdir).
undo_rmdir(w, tid, original) ==
    IF IsSome(original.content_hash)
    THEN LET restored(rs) ==
                 IF rs.e # "Ok" THEN Fail([w EXCEPT !.fs = rs.fs], rs.e)
                 ELSE Done(w, rs.fs, Stamp(NewMetadata(FreshId(w), "Mkdir", original.path), tid))
             made(mk, got) ==
                 IF mk.e # "Ok" THEN Fail([w EXCEPT !.fs = mk.fs], IoErr(mk))
                 ELSE restored(RestoreFiles(mk.fs, w.cs, original.path, got.content.manifest))
             retrieved(got) ==
                 IF got.e # "Ok" THEN Fail(w, got.e)
                 ELSE IF got.content.kind # "manifest" THEN Fail(w, "Json")
                 ELSE made(CreateDirAll(w.fs, original.path), got)
         IN  retrieved(Retrieve(w.cs, Get(original.content_hash)))
    ELSE execute_mkdir(w, tid, original.path, FALSE)

\* OperationExecutor::undo_symlink: remove the link, record a Delete.
undo_symlink(w, tid, original) ==
    Finish(w,
           RemoveFile(w.fs, original.path),
           Stamp(NewMetadata(FreshId(w), "Delete", original.path), tid))

\* OperationExecutor::undo_append: execute(Truncate) to the captured size.
undo_append(w, tid, original) ==
    IF ~IsSome(original.original_metadata) THEN Fail(w, "MetadataCorrupted")
    ELSE execute_truncate(w, tid, original.path, Get(original.original_metadata).size)

\* undo_truncate that only sets the length back: a faulty variant, against
\* which C28 is tried.
undo_truncate_resizing(w, tid, original) ==
    IF ~IsSome(original.original_metadata) THEN Fail(w, "MetadataCorrupted")
    ELSE execute_truncate(w, tid, original.path, Get(original.original_metadata).size)

\* OperationExecutor::undo_truncate: execute(Modify) with the stored content.
undo_truncate(w, tid, original) ==
    IF ~IsSome(original.content_hash) THEN Fail(w, "MetadataCorrupted")
    ELSE LET retrieved(got) ==
                 IF got.e # "Ok" THEN Fail(w, got.e)
                 ELSE execute_modify(w, tid, original.path, got.content.bytes)
         IN  retrieved(Retrieve(w.cs, Get(original.content_hash)))

\* OperationExecutor::undo_touch: restore the captured mtime and record a
\* Touch, or execute(Delete) when the touch created the file.
undo_touch(w, tid, original) ==
    IF IsSome(original.original_metadata)
    THEN Finish(w,
                SetMtime(w.fs, original.path, Get(original.original_metadata).modified),
                Stamp(NewMetadata(FreshId(w), "Touch", original.path), tid))
    ELSE execute_delete(w, tid, original.path)

\* The match on metadata.op_type in OperationExecutor::undo.
undo_dispatch(w, tid, original) ==
    CASE original.op_type = "Delete" -> undo_delete(w, tid, original)
      [] original.op_type = "Modify" -> undo_modify(w, tid, original)
      [] original.op_type = "Move" -> undo_move(w, tid, original)
      [] original.op_type = "Copy" -> undo_copy(w, tid, original)
      [] original.op_type = "Chmod" -> undo_chmod(w, tid, original)
      [] original.op_type = "Create" -> undo_create(w, tid, original)
      [] original.op_type = "Mkdir" -> undo_mkdir(w, tid, original)
      [] original.op_type = "Rmdir" -> undo_rmdir(w, tid, original)
      [] original.op_type = "Symlink" -> undo_symlink(w, tid, original)
      [] original.op_type = "Append" -> undo_append(w, tid, original)
      [] original.op_type = "Truncate" -> undo_truncate(w, tid, original)
      [] original.op_type = "Touch" -> undo_touch(w, tid, original)

\* undo without its "already undone" check: a faulty variant, against
\* which C3 is tried.
undo_unguarded(w, tid, operation_id) ==
    IF ~HasRecord(w.log, operation_id) THEN Fail(w, "InvalidOperationId")
    ELSE LET inverted(r) ==
                 IF r.err # "Ok" THEN r
                 ELSE [r EXCEPT !.w.log = MarkUndone(r.w.log, operation_id, Get(r.meta).id)]
         IN  inverted(undo_dispatch(w, tid, GetRecord(w.log, operation_id)))

\* OperationExecutor::undo: look the record up, refuse one already undone,
\* run the inverse, mark the original undone.
undo(w, tid, operation_id) ==
    IF ~HasRecord(w.log, operation_id) THEN Fail(w, "InvalidOperationId")
    ELSE IF GetRecord(w.log, operation_id).undone THEN Fail(w, "OperationFailed")
    ELSE LET inverted(r) ==
                 IF r.err # "Ok" THEN r
                 ELSE [r EXCEPT !.w.log = MarkUndone(r.w.log, operation_id, Get(r.meta).id)]
         IN  inverted(undo_dispatch(w, tid, GetRecord(w.log, operation_id)))

\* jk_undo_last: undo of the record last_undoable picks.
jk_undo_last(w) ==
    IF ~IsSome(last_undoable(w.log)) THEN Fail(w, "ErrNotFound")
    ELSE undo(w, None, Get(last_undoable(w.log)).id)

\* ------------------------------------------------------------------------
\* Transaction manager (transaction.rs)
\* ------------------------------------------------------------------------

\* Transaction::new.
NewTransaction(id, now) ==
    [id |-> id, started_at |-> now, completed_at |-> None, state |-> "Active",
     operation_ids |-> <<>>]

\* TransactionLog::new.
NewTransactionLog == [transactions |-> <<>>, active_transaction_id |-> None]

\* The most recent transaction whatever its state, taken for the active
\* one: a faulty variant of active_index, against which C9 is tried.
latest_index(tl) == Len(tl.transactions)

\* TransactionManager::active / active_mut: the position of the first
\* transaction whose id is the active id, 0 if there is none.
active_index(tl) ==
    IF ~IsSome(tl.active_transaction_id) THEN 0
    ELSE LET hits == {i \in 1..Len(tl.transactions) :
                        tl.transactions[i].id = Get(tl.active_transaction_id)}
         IN  IF hits = {} THEN 0 ELSE CHOOSE i \in hits : \A j \in hits : i <= j

\* begin without its "already active" check: a faulty variant, against
\* which C4 is tried.
begin_unguarded(tl, id, now) ==
    [tl |-> [transactions |-> Append(tl.transactions, NewTransaction(id, now)),
             active_transaction_id |-> Some(id)],
     err |-> "Ok"]

\* TransactionManager::begin.
begin(tl, id, now) ==
    IF IsSome(tl.active_transaction_id) THEN [tl |-> tl, err |-> "TransactionActive"]
    ELSE [tl |-> [transactions |-> Append(tl.transactions, NewTransaction(id, now)),
                  active_transaction_id |-> Some(id)],
          err |-> "Ok"]

\* TransactionManager::add_operation.
add_operation(tl, operation_id) ==
    IF active_index(tl) = 0 THEN [tl |-> tl, err |-> "NoActiveTransaction"]
    ELSE [tl |-> [tl EXCEPT !.transactions[active_index(tl)].operation_ids =
                                Append(@, operation_id)],
          err |-> "Ok"]

\* commit that leaves the active pointer set: a faulty variant, against
\* which C8 is tried.
commit_keeping_pointer(tl, now) ==
    IF active_index(tl) = 0 THEN [tl |-> tl, err |-> "NoActiveTransaction"]
    ELSE [tl |-> [tl EXCEPT !.transactions[active_index(tl)].state = "Committed",
                            !.transactions[active_index(tl)].completed_at = Some(now)],
          err |-> "Ok"]

\* TransactionManager::commit.
commit(tl, now) ==
    IF active_index(tl) = 0 THEN [tl |-> tl, err |-> "NoActiveTransaction"]
    ELSE [tl |-> [tl EXCEPT !.transactions[active_index(tl)].state = "Committed",
                            !.transactions[active_index(tl)].completed_at = Some(now),
                            !.active_transaction_id = None],
          err |-> "Ok"]

\* The tail of TransactionManager::rollback, after the undo loop:
\* Transaction::rollback on the active transaction, clear the pointer.
mark_rolled_back(tl, now) ==
    IF active_index(tl) = 0 THEN [tl |-> tl, err |-> "NoActiveTransaction"]
    ELSE [tl |-> [tl EXCEPT !.transactions[active_index(tl)].state = "RolledBack",
                            !.transactions[active_index(tl)].completed_at = Some(now),
                            !.active_transaction_id = None],
          err |-> "Ok"]

\* transaction.operation_ids.iter().rev(): the order the rollback loop takes.
RECURSIVE Reverse(_)
Reverse(s) == IF s = <<>> THEN <<>> ELSE Append(Reverse(Tail(s)), Head(s))

\* Faulty variants of the loop order: oldest first (against which C5 is
\* tried), and newest first but stopping short of the oldest (C7).
rollback_order_forward(operation_ids) == operation_ids

rollback_order_short(operation_ids) ==
    IF operation_ids = <<>> THEN <<>> ELSE Reverse(Tail(operation_ids))

rollback_order(operation_ids) == Reverse(operation_ids)

\* TransactionManager::rollback, first statement: the active transaction's
\* operation ids in the order the loop will undo them.
rollback_entry(tl) ==
    IF active_index(tl) = 0 THEN [order |-> <<>>, err |-> "NoActiveTransaction"]
    ELSE [order |-> rollback_order(tl.transactions[active_index(tl)].operation_ids),
          err |-> "Ok"]

\* TransactionManager::active_id.
active_id(tl) == tl.active_transaction_id

\* TransactionExecutor::execute without the add_operation call: a faulty
\* variant, against which C10 is tried.
tx_execute_unrecorded(tl, r) == [w |-> r.w, tl |-> tl, err |-> r.err, meta |-> r.meta]

\* TransactionExecutor::execute, after executor.execute(operation) has
\* returned r (run with the active transaction's id, if any): `?` on r,
\* then push the record's id onto the active transaction.
tx_execute(tl, r) ==
    IF r.err # "Ok" \/ ~IsSome(active_id(tl))
    THEN [w |-> r.w, tl |-> tl, err |-> r.err, meta |-> r.meta]
    ELSE LET added(ad) ==
                 [w |-> r.w, tl |-> ad.tl, err |-> ad.err,
                  meta |-> IF ad.err = "Ok" THEN r.meta ELSE None]
         IN  added(add_operation(tl, Get(r.meta).id))

\* ------------------------------------------------------------------------
\* State
\* ------------------------------------------------------------------------

VARIABLES
    fs,        \* the working directory: Paths -> node
    cs,        \* the content store: set of [hash, content]
    journal,   \* MetadataStore.log.operations
    nextId,    \* source of fresh record ids (Uuid::new_v4)
    txlog,     \* TransactionManager.log
    pc,        \* "idle", or "rollback" inside TransactionManager::rollback
    pending,   \* rollback: the operation ids the loop has still to undo
    last,      \* the last call made and what it returned
    pre,       \* the file system before the last successful execute
    begun,     \* the file system when the active transaction began
    oblog,     \* ObliterationManager.log.records
    inflight,  \* inside execute: the record built but not yet appended
    batch,     \* what the last obliterate_batch returned
    held,      \* per open JanusKey instance: the logs it keeps in memory
    keystore,  \* keystore.jks: the wrapped keys, None before KeyManager::init
    kek,       \* KeyManager.kek
    auditlog,  \* audit.log: one line per entry
    logged     \* how many log_event calls have returned Ok

vars == <<fs, cs, journal, nextId, txlog, pc, pending, last, pre, begun,
          oblog, inflight, batch, held, keystore, kek, auditlog, logged>>

\* What only the second instance and the key manager touch.
aside == <<held, keystore, kek, auditlog, logged>>

\* What the executor and the transaction manager never touch.
others == <<oblog, inflight, batch, aside>>

\* The JanusKey instances that can be open on the working directory.
Instances == {1, 2}

\* The working directories a session starts from.
TreeFileOnly ==
    [p \in Paths |-> IF p = <<"a">> THEN FileNode(<<1>>, ModePrivate, "old") ELSE Absent]

TreeDirWithFile ==
    [p \in Paths |->
        IF p = <<"d">> THEN DirNode(ModeDir)
        ELSE IF p = <<"d", "f">> THEN FileNode(<<2>>, ModeFile, "old")
        ELSE Absent]

InitialTrees == {TreeFileOnly, TreeDirWithFile}

\* A directory with a file, a subdirectory and a file in the subdirectory.
TreeNested ==
    [p \in Paths |->
        IF p \in {<<"d">>, <<"d", "s">>} THEN DirNode(ModeDir)
        ELSE IF p = <<"d", "f">> THEN FileNode(<<2>>, ModeFile, "old")
        ELSE IF p = <<"d", "s", "g">> THEN FileNode(<<1>>, ModePrivate, "old")
        ELSE Absent]

\* Utc::now(): a logical clock that advances with every record ever appended
\* (pruned ones included) and every transaction event.
Now ==
    nextId + Len(txlog.transactions)
      + Cardinality({i \in 1..Len(txlog.transactions) :
                       IsSome(txlog.transactions[i].completed_at)})

\* Forward (non-undo) records: every undo record marks one record undone.
ForwardCount == Len(journal) - Cardinality({i \in 1..Len(journal) : journal[i].undone})

\* The records of a list of ids that an undo would still act on.
NotUndone(ids) ==
    Cardinality({i \in 1..Len(ids) :
                   HasRecord(journal, ids[i]) /\ ~GetRecord(journal, ids[i]).undone})

Call(call, err, id, rt) == [call |-> call, err |-> err, id |-> id, rt |-> rt]

\* JanusKey::init on a working directory: empty stores and logs.
Fresh ==
    /\ cs = {}
    /\ journal = <<>>
    /\ nextId = 1
    /\ txlog = NewTransactionLog
    /\ pc = "idle"
    /\ pending = <<>>
    /\ last = Call("none", "Ok", None, FALSE)
    /\ pre = None
    /\ begun = None
    /\ oblog = <<>>
    /\ inflight = None
    /\ batch = None
    /\ held = [i \in Instances |-> None]
    /\ keystore = None
    /\ kek = None
    /\ auditlog = <<>>
    /\ logged = 0

Init == fs \in InitialTrees /\ Fresh

InitNested == fs = TreeNested /\ Fresh

\* The snapshot taken at begin, marked impure once something other than a
\* successful execute changed the world; dropped when no transaction is active.
Track(tl, changedOutsideExecute) ==
    IF ~IsSome(tl.active_transaction_id) \/ ~IsSome(begun) THEN None
    ELSE IF changedOutsideExecute THEN Some([Get(begun) EXCEPT !.pure = FALSE])
    ELSE begun

\* The world the executor is handed.
Here == World(fs, cs, journal, nextId)

\* A call of TransactionExecutor::execute whose inner executor.execute
\* returned r0.  A call that fails before changing anything leaves every
\* variable as it was.
Execute(r0) ==
    /\ pc = "idle"
    /\ Now <= MaxClock
    /\ Len(journal) < MaxJournal
    /\ ForwardCount < MaxExec
    /\ \E r \in {tx_execute(txlog, r0)} :
           /\ r.err # "OutOfModel"
           /\ r.err = "Ok" \/ r.w # Here
           /\ fs' = r.w.fs
           /\ cs' = r.w.cs
           /\ journal' = r.w.log
           /\ nextId' = r.w.nid
           /\ txlog' = r.tl
           /\ last' = Call("execute", r.err,
                           IF r.err = "Ok" THEN Some(Get(r.meta).id) ELSE None, FALSE)
           /\ pre' = IF r.err = "Ok" THEN Some(fs) ELSE None
           /\ begun' = Track(r.tl, r.err # "Ok")
    /\ UNCHANGED <<pc, pending, others>>

ExecDelete == \E p \in InputPaths : Execute(execute_delete(Here, active_id(txlog), p))

ExecModify ==
    \E p \in InputPaths, c \in Contents : Execute(execute_modify(Here, active_id(txlog), p, c))

ExecMove ==
    \E s \in InputPaths, d \in InputPaths :
        s # d /\ Execute(execute_move(Here, active_id(txlog), s, d))

ExecCopy ==
    \E s \in InputPaths, d \in InputPaths :
        s # d /\ Execute(execute_copy(Here, active_id(txlog), s, d))

ExecChmod ==
    \E p \in InputPaths, m \in ChmodModes : Execute(execute_chmod(Here, active_id(txlog), p, m))

ExecCreate ==
    \E p \in InputPaths, c \in Contents : Execute(execute_create(Here, active_id(txlog), p, c))

ExecMkdir ==
    \E p \in InputPaths, parents \in BOOLEAN :
        Execute(execute_mkdir(Here, active_id(txlog), p, parents))

ExecRmdir == \E p \in InputPaths : Execute(execute_rmdir(Here, active_id(txlog), p))

ExecRmdirRecursive ==
    \E p \in InputPaths : Execute(execute_rmdir_recursive(Here, active_id(txlog), p))

ExecSymlink ==
    \E l \in SymlinkPaths, t \in SymlinkTargets :
        Execute(execute_symlink(Here, active_id(txlog), t, l))

ExecAppend ==
    \E p \in InputPaths, c \in AppendContents :
        Execute(execute_append(Here, active_id(txlog), p, c))

ExecTruncate ==
    \E p \in InputPaths, n \in TruncateSizes :
        Execute(execute_truncate(Here, active_id(txlog), p, n))

ExecTouch ==
    \E p \in InputPaths, create \in BOOLEAN :
        Execute(execute_touch(Here, active_id(txlog), p, create))

\* cmd_undo / jk_undo_by_id: undo one record by id, with an executor that
\* carries no transaction id.  A call that fails before changing anything
\* leaves every variable as it was.
Undo ==
    /\ pc = "idle"
    /\ Now <= MaxClock
    /\ Len(journal) < MaxJournal
    /\ \E id \in {journal[i].id : i \in 1..Len(journal)} :
         \E r \in {undo(Here, None, id)} :
         LET roundTrip == last.call = "execute" /\ last.err = "Ok" /\ last.id = Some(id)
         IN  /\ r.err # "OutOfModel"
             /\ r.err = "Ok" \/ r.w # Here
             /\ fs' = r.w.fs
             /\ cs' = r.w.cs
             /\ journal' = r.w.log
             /\ nextId' = r.w.nid
             /\ last' = Call("undo", r.err, Some(id), roundTrip)
             /\ pre' = IF roundTrip THEN pre ELSE None
             /\ begun' = Track(txlog, r.w.fs # fs)
    /\ UNCHANGED <<txlog, pc, pending, others>>

\* cmd_begin: TransactionManager::begin.
TxBegin ==
    /\ pc = "idle"
    /\ Now <= MaxClock
    /\ Len(txlog.transactions) < MaxTx
    /\ LET r == begin(txlog, <<"tx", Len(txlog.transactions) + 1>>, Now)
       IN  /\ r.err = "Ok"
           /\ txlog' = r.tl
           /\ last' = Call("begin", r.err, None, FALSE)
           /\ begun' = IF r.err = "Ok" THEN Some([fs |-> fs, pure |-> TRUE]) ELSE begun
    /\ pre' = None
    /\ UNCHANGED <<fs, cs, journal, nextId, pc, pending, others>>

\* cmd_commit: TransactionManager::commit.
TxCommit ==
    /\ pc = "idle"
    /\ Now <= MaxClock
    /\ LET r == commit(txlog, Now)
       IN  /\ r.err = "Ok"
           /\ txlog' = r.tl
           /\ last' = Call("commit", r.err, None, FALSE)
           /\ begun' = Track(r.tl, FALSE)
    /\ pre' = None
    /\ UNCHANGED <<fs, cs, journal, nextId, pc, pending, others>>

\* TransactionManager::rollback, entry: clone the active transaction
\* (NoActiveTransaction, with nothing changed, when there is none).
RollbackStart ==
    /\ pc = "idle"
    /\ LET r == rollback_entry(txlog)
       IN  /\ r.err = "Ok"
           /\ Len(journal) + NotUndone(r.order) <= MaxJournal
           /\ Now + NotUndone(r.order) <= MaxClock
           /\ pc' = "rollback"
           /\ pending' = r.order
           /\ last' = Call("rollback", "Running", None, FALSE)
    /\ pre' = None
    /\ UNCHANGED <<fs, cs, journal, nextId, txlog, begun, others>>

\* The rollback loop going on to the next id after an undo failed: a faulty
\* variant of RollbackUndo, against which C6 is tried.
RollbackUndoContinuing ==
    /\ pc = "rollback"
    /\ pending # <<>>
    /\ \E r \in {undo(Here, None, Head(pending))} :
           /\ r.err # "OutOfModel"
           /\ fs' = r.w.fs
           /\ cs' = r.w.cs
           /\ journal' = r.w.log
           /\ nextId' = r.w.nid
           /\ pending' = Tail(pending)
           /\ pc' = "rollback"
           /\ last' = Call("rollback", "Running", Some(Head(pending)), FALSE)
    /\ UNCHANGED <<txlog, pre, begun, others>>

\* One turn of the rollback loop: undo the next operation id; an error
\* ends the rollback and is returned.
RollbackUndo ==
    /\ pc = "rollback"
    /\ pending # <<>>
    /\ \E r \in {undo(Here, None, Head(pending))} :
           /\ r.err # "OutOfModel"
           /\ fs' = r.w.fs
           /\ cs' = r.w.cs
           /\ journal' = r.w.log
           /\ nextId' = r.w.nid
           /\ IF r.err = "Ok"
              THEN /\ pending' = Tail(pending)
                   /\ pc' = "rollback"
                   /\ last' = Call("rollback", "Running", Some(Head(pending)), FALSE)
              ELSE /\ pending' = <<>>
                   /\ pc' = "idle"
                   /\ last' = Call("rollback", r.err, Some(Head(pending)), FALSE)
    /\ UNCHANGED <<txlog, pre, begun, others>>

\* After the loop: mark the transaction rolled back, clear the pointer.
RollbackFinish ==
    /\ pc = "rollback"
    /\ pending = <<>>
    /\ LET r == mark_rolled_back(txlog, Now)
       IN  /\ txlog' = r.tl
           /\ last' = Call("rollback", r.err, None, FALSE)
    /\ pc' = "idle"
    /\ UNCHANGED <<fs, cs, journal, nextId, pending, pre, begun, others>>

Next ==
    \/ ExecDelete
    \/ ExecModify
    \/ ExecMove
    \/ ExecCopy
    \/ ExecChmod
    \/ ExecCreate
    \/ ExecMkdir
    \/ ExecRmdir
    \/ ExecRmdirRecursive
    \/ ExecSymlink
    \/ ExecAppend
    \/ ExecTruncate
    \/ ExecTouch
    \/ Undo
    \/ TxBegin
    \/ TxCommit
    \/ RollbackStart
    \/ RollbackUndo
    \/ RollbackFinish

Spec == Init /\ [][Next]_vars

\* ------------------------------------------------------------------------
\* execute, statement by statement
\* ------------------------------------------------------------------------

\* An execute_* that returns r0, run up to and including its std::fs
\* mutation: captured bytes are in the content store and the file system is
\* changed; the record is built but metadata_store.append has not run yet.
\* A call that fails leaves no record; it is a step only if it changed
\* something before failing.
ExecuteMutate(r0) ==
    /\ pc = "idle"
    /\ Len(journal) < MaxExec
    /\ r0.err # "OutOfModel"
    /\ r0.err = "Ok" \/ r0.w # Here
    /\ fs' = r0.w.fs
    /\ cs' = r0.w.cs
    /\ inflight' = r0.meta
    /\ pc' = IF r0.err = "Ok" THEN "append" ELSE "idle"
    /\ last' = Call("execute", IF r0.err = "Ok" THEN "Running" ELSE r0.err, None, FALSE)
    /\ pre' = Some(fs)
    /\ UNCHANGED <<journal, nextId, txlog, pending, begun, oblog, batch, aside>>

\* The last two statements of every execute_*:
\* metadata_store.append(metadata) and Ok(metadata).
ExecuteRecord ==
    /\ pc = "append"
    /\ journal' = Append(journal, Get(inflight))
    /\ nextId' = nextId + 1
    /\ inflight' = None
    /\ pc' = "idle"
    /\ last' = Call("execute", "Ok", Some(Get(inflight).id), FALSE)
    /\ UNCHANGED <<fs, cs, txlog, pending, pre, begun, oblog, batch, aside>>

StepDelete == \E p \in InputPaths : ExecuteMutate(execute_delete(Here, None, p))

StepModify ==
    \E p \in InputPaths, c \in Contents : ExecuteMutate(execute_modify(Here, None, p, c))

StepMove ==
    \E s \in InputPaths, d \in InputPaths :
        s # d /\ ExecuteMutate(execute_move(Here, None, s, d))

StepCopy ==
    \E s \in InputPaths, d \in InputPaths :
        s # d /\ ExecuteMutate(execute_copy(Here, None, s, d))

StepChmod ==
    \E p \in InputPaths, m \in ChmodModes : ExecuteMutate(execute_chmod(Here, None, p, m))

StepCreate ==
    \E p \in InputPaths, c \in Contents : ExecuteMutate(execute_create(Here, None, p, c))

StepMkdir ==
    \E p \in InputPaths, parents \in BOOLEAN :
        ExecuteMutate(execute_mkdir(Here, None, p, parents))

StepRmdir == \E p \in InputPaths : ExecuteMutate(execute_rmdir(Here, None, p))

StepRmdirRecursive ==
    \E p \in InputPaths : ExecuteMutate(execute_rmdir_recursive(Here, None, p))

StepSymlink ==
    \E l \in SymlinkPaths, t \in SymlinkTargets :
        ExecuteMutate(execute_symlink(Here, None, t, l))

StepAppend ==
    \E p \in InputPaths, c \in AppendContents : ExecuteMutate(execute_append(Here, None, p, c))

StepTruncate ==
    \E p \in InputPaths, n \in TruncateSizes :
        ExecuteMutate(execute_truncate(Here, None, p, n))

StepTouch ==
    \E p \in InputPaths, create \in BOOLEAN :
        ExecuteMutate(execute_touch(Here, None, p, create))

NextSteps ==
    \/ StepDelete
    \/ StepModify
    \/ StepMove
    \/ StepCopy
    \/ StepChmod
    \/ StepCreate
    \/ StepMkdir
    \/ StepRmdir
    \/ StepRmdirRecursive
    \/ StepSymlink
    \/ StepAppend
    \/ StepTruncate
    \/ StepTouch
    \/ ExecuteRecord

SpecSteps == Init /\ [][NextSteps]_vars

\* ------------------------------------------------------------------------
\* Obliteration (obliteration.rs)
\* ------------------------------------------------------------------------

\* Values rand::thread_rng().fill_bytes gives the nonce (two bytes stand
\* for the thirty-two).
Nonces == {<<0, 255>>, <<16, 1>>}

\* The reason and legal_basis arguments that are tried.
Reasons == {None, Some("erasure request")}

LegalBases == {None, Some("GDPR Article 17")}

\* A hash under which nothing is ever stored.
MissingHash == HashOf(BytesBlob(<<9>>))

\* ContentHash::raw_hash: the hash without its "sha256:" prefix.
RawHash(h) == Tail(h)

HexDigits ==
    <<"0", "1", "2", "3", "4", "5", "6", "7", "8", "9", "a", "b", "c", "d", "e", "f">>

\* hex::encode: two digits per byte, high nibble first.
HexEncode(bytes) ==
    [i \in 1..(2 * Len(bytes)) |->
        IF i % 2 = 1 THEN HexDigits[(bytes[(i + 1) \div 2] \div 16) + 1]
        ELSE HexDigits[(bytes[i \div 2] % 16) + 1]]

\* hex::decode: an error (None) on an odd length or a character that is
\* no hex digit.
HexDecode(str) ==
    IF Len(str) % 2 # 0 \/ \E i \in 1..Len(str) : \A k \in 1..16 : HexDigits[k] # str[i]
    THEN None
    ELSE LET val(c) == (CHOOSE k \in 1..16 : HexDigits[k] = c) - 1
         IN  Some([i \in 1..(Len(str) \div 2) |->
                      16 * val(str[2 * i - 1]) + val(str[2 * i])])

\* DateTime::to_rfc3339 of a reading of the logical clock (below 100):
\* its decimal digits and the zone.
Rfc3339(t) == <<HexDigits[(t \div 10) + 1], HexDigits[(t % 10) + 1], "Z">>

\* hex::encode(Sha256(raw_hash bytes, nonce bytes, rfc3339 bytes)): SHA-256
\* is taken to be injective, so the digest is written as its input.
Commitment(h, nonceBytes, t) == <<"sha256hex", RawHash(h) \o nonceBytes \o Rfc3339(t)>>

\* ObliterationProof::generate.
generate(id, h, passes, now, nonceBytes) ==
    [id |-> id, content_hash |-> h, timestamp |-> now, user |-> "user",
     nonce |-> HexEncode(nonceBytes),
     commitment |-> Commitment(h, nonceBytes, now),
     overwrite_passes |-> passes, storage_cleared |-> TRUE]

\* ObliterationProof::verify_commitment.
verify_commitment(proof) ==
    LET decoded == HexDecode(proof.nonce)
    IN  IF ~IsSome(decoded) THEN FALSE
        ELSE proof.commitment = Commitment(proof.content_hash, Get(decoded), proof.timestamp)

OVERWRITE_PASSES == 3

\* secure_overwrite: the stored bytes are written over in place, the last
\* pass with random data; the file is removed by the caller right after.
secure_overwrite(store, h) ==
    {IF e.hash = h THEN [e EXCEPT !.content = BytesBlob(<<0>>)] ELSE e : e \in store}

\* obliterate that writes the proof and the record and leaves the blob in
\* the store: a faulty variant, against which C17 is tried.
obliterate_keeping_blob(ob, store, h, reason, legal_basis, now, nonceBytes) ==
    IF ~StoreHas(store, h) THEN [err |-> "FileNotFound", cs |-> store, log |-> ob, rec |-> None]
    ELSE LET record == [id |-> <<"obl", Len(ob) + 1>>, timestamp |-> now, user |-> "user",
                        content_hash |-> h, reason |-> reason, legal_basis |-> legal_basis,
                        proof |-> generate(<<"proof", Len(ob) + 1>>, h, OVERWRITE_PASSES,
                                           now, nonceBytes),
                        cleaned_operation_ids |-> <<>>]
         IN  [err |-> "Ok", cs |-> store, log |-> Append(ob, record), rec |-> Some(record)]

\* obliterate that logs a record also when nothing is stored at the hash:
\* a faulty variant, against which C21 is tried.
obliterate_logging_missing(ob, store, h, reason, legal_basis, now, nonceBytes) ==
    LET record == [id |-> <<"obl", Len(ob) + 1>>, timestamp |-> now, user |-> "user",
                   content_hash |-> h, reason |-> reason, legal_basis |-> legal_basis,
                   proof |-> generate(<<"proof", Len(ob) + 1>>, h, OVERWRITE_PASSES,
                                      now, nonceBytes),
                   cleaned_operation_ids |-> <<>>]
    IN  [err |-> IF StoreHas(store, h) THEN "Ok" ELSE "FileNotFound",
         cs |-> {e \in secure_overwrite(store, h) : e.hash # h},
         log |-> Append(ob, record),
         rec |-> IF StoreHas(store, h) THEN Some(record) ELSE None]

\* ObliterationManager::obliterate: FileNotFound when nothing is stored at
\* the hash; else overwrite and remove the blob, generate the proof, push
\* the record.
obliterate(ob, store, h, reason, legal_basis, now, nonceBytes) ==
    IF ~StoreHas(store, h) THEN [err |-> "FileNotFound", cs |-> store, log |-> ob, rec |-> None]
    ELSE LET record == [id |-> <<"obl", Len(ob) + 1>>, timestamp |-> now, user |-> "user",
                        content_hash |-> h, reason |-> reason, legal_basis |-> legal_basis,
                        proof |-> generate(<<"proof", Len(ob) + 1>>, h, OVERWRITE_PASSES,
                                           now, nonceBytes),
                        cleaned_operation_ids |-> <<>>]
         IN  [err |-> "Ok",
              cs |-> {e \in secure_overwrite(store, h) : e.hash # h},
              log |-> Append(ob, record),
              rec |-> Some(record)]

\* ObliterationManager::verify_proof: the record whose proof has the id,
\* InvalidOperationId when there is none; the answer is verify_commitment.
verify_proof(ob, proof_id) ==
    IF ~\E i \in 1..Len(ob) : ob[i].proof.id = proof_id
    THEN [err |-> "InvalidOperationId", ok |-> FALSE]
    ELSE [err |-> "Ok",
          ok |-> verify_commitment(
                     ob[CHOOSE i \in 1..Len(ob) :
                            /\ ob[i].proof.id = proof_id
                            /\ \A j \in 1..(i - 1) : ob[j].proof.id # proof_id].proof)]

\* obliterate_batch that gives up at the first hash that fails: a faulty
\* variant, against which C20 is tried.
RECURSIVE obliterate_batch_aborting(_, _, _, _, _, _, _)
obliterate_batch_aborting(ob, store, hashes, reason, legal_basis, now, nonces) ==
    IF hashes = <<>> THEN [successful |-> <<>>, failed |-> <<>>, cs |-> store, log |-> ob]
    ELSE LET one(r) ==
                 IF r.err # "Ok"
                 THEN [successful |-> <<>>, failed |-> <<<<Head(hashes), r.err>>>>,
                       cs |-> r.cs, log |-> r.log]
                 ELSE LET rest(b) == [b EXCEPT !.successful = <<Get(r.rec)>> \o b.successful]
                      IN  rest(obliterate_batch_aborting(r.log, r.cs, Tail(hashes), reason,
                                                         legal_basis, now, Tail(nonces)))
         IN  one(obliterate(ob, store, Head(hashes), reason, legal_basis, now, Head(nonces)))

\* ObliterationManager::obliterate_batch: obliterate each hash of the
\* request in turn; Ok goes to successful, Err to failed with its hash.
RECURSIVE obliterate_batch(_, _, _, _, _, _, _)
obliterate_batch(ob, store, hashes, reason, legal_basis, now, nonces) ==
    IF hashes = <<>> THEN [successful |-> <<>>, failed |-> <<>>, cs |-> store, log |-> ob]
    ELSE LET one(r) ==
                 LET rest(b) ==
                         IF r.err = "Ok"
                         THEN [b EXCEPT !.successful = <<Get(r.rec)>> \o b.successful]
                         ELSE [b EXCEPT !.failed = <<<<Head(hashes), r.err>>>> \o b.failed]
                 IN  rest(obliterate_batch(r.log, r.cs, Tail(hashes), reason,
                                           legal_basis, now, Tail(nonces)))
         IN  one(obliterate(ob, store, Head(hashes), reason, legal_basis, now, Head(nonces)))

\* The hashes an obliteration may be asked for: those in the store, those
\* the journal refers to, and one that was never stored.
RequestHashes ==
    {e.hash : e \in cs}
        \cup {Get(journal[i].content_hash) :
                 i \in {k \in 1..Len(journal) : IsSome(journal[k].content_hash)}}
        \cup {MissingHash}

\* The content_hashes of a BatchObliterationRequest: up to two hashes,
\* repeats included.
BatchRequests ==
    {<<>>} \cup {<<h>> : h \in RequestHashes}
           \cup {<<h, g>> : h \in RequestHashes, g \in RequestHashes}

\* cmd_obliterate: obliterate one hash.  A call that finds nothing at the
\* hash changes nothing.
Obliterate ==
    /\ pc = "idle"
    /\ Len(oblog) < MaxObl
    /\ \E h \in RequestHashes, reason \in Reasons, legal_basis \in LegalBases,
          nonceBytes \in Nonces :
         \E r \in {obliterate(oblog, cs, h, reason, legal_basis, Now, nonceBytes)} :
           /\ r.err = "Ok"
           /\ cs' = r.cs
           /\ oblog' = r.log
           /\ last' = Call("obliterate", r.err, Some(h), FALSE)
    /\ pre' = None
    /\ UNCHANGED <<fs, journal, nextId, txlog, pc, pending, begun, inflight, batch, aside>>

\* A call of obliterate_batch; what it returned is kept with its request.
ObliterateBatch ==
    /\ pc = "idle"
    /\ \E hashes \in BatchRequests, reason \in Reasons, nonceBytes \in Nonces :
         /\ Len(oblog) + Len(hashes) <= MaxObl
         /\ \E r \in {obliterate_batch(oblog, cs, hashes, reason, None, Now,
                                       [i \in 1..Len(hashes) |-> nonceBytes])} :
              /\ cs' = r.cs
              /\ oblog' = r.log
              /\ batch' = Some([hashes |-> hashes, successful |-> r.successful,
                                failed |-> r.failed])
              /\ last' = Call("obliterate_batch", "Ok", None, FALSE)
    /\ pre' = None
    /\ UNCHANGED <<fs, journal, nextId, txlog, pc, pending, begun, inflight, aside>>

\* Deletes and modifications, their undo, and obliterations of what they
\* captured.
NextObl ==
    \/ ExecDelete
    \/ ExecModify
    \/ ExecRmdirRecursive
    \/ Undo
    \/ Obliterate
    \/ ObliterateBatch

SpecObl == Init /\ [][NextObl]_vars

\* ------------------------------------------------------------------------
\* A content store whose files can go bad
\* ------------------------------------------------------------------------

\* What a damaged blob file holds: other bytes, or nothing that
\* decompresses.
Garbage == {BytesBlob(<<0>>), Undecodable}

\* The file of a blob is damaged on disk (the case the integrity check of
\* retrieve is there for): the address stays, the bytes change.
Corrupt ==
    /\ pc = "idle"
    /\ \E ent \in cs, bad \in Garbage :
         /\ ent.content \notin Garbage
         /\ cs' = (cs \ {ent}) \cup {[ent EXCEPT !.content = bad]}
    /\ last' = Call("corrupt", "Ok", None, FALSE)
    /\ pre' = None
    /\ UNCHANGED <<fs, journal, nextId, txlog, pc, pending, begun, others>>

NextStore ==
    \/ ExecDelete
    \/ ExecModify
    \/ ExecRmdirRecursive
    \/ Undo
    \/ Corrupt

SpecStore == Init /\ [][NextStore]_vars

\* ------------------------------------------------------------------------
\* Directory trees with subdirectories
\* ------------------------------------------------------------------------

\* Removals, modifications and creations in a nested tree, and their undo.
NextNested ==
    \/ ExecRmdirRecursive
    \/ ExecDelete
    \/ ExecModify
    \/ ExecCreate
    \/ Undo

SpecNested == InitNested /\ [][NextNested]_vars

\* The nested tree with a file d/f whose bytes differ from the bytes the
\* Create inputs carry, so a file created again at d/f is a different file.
TreeOther == [TreeNested EXCEPT ![<<"d", "f">>] = FileNode(<<1>>, ModeFile, "old")]

InitOther == fs = TreeOther /\ Fresh

SpecOther == InitOther /\ [][NextNested]_vars

\* ------------------------------------------------------------------------
\* Two instances on one working directory
\* ------------------------------------------------------------------------

\* JanusKey::open: MetadataStore::new, TransactionManager::new and
\* ObliterationManager::new each read their file into memory once.
Loaded == [log |-> journal, tl |-> txlog, ol |-> oblog]

OpenInstance ==
    /\ \E i \in Instances :
         /\ held[i] = None
         /\ held' = [held EXCEPT ![i] = Some(Loaded)]
    /\ last' = Call("open", "Ok", None, FALSE)
    /\ pre' = None
    /\ UNCHANGED <<fs, cs, journal, nextId, txlog, pc, pending, begun,
                   oblog, inflight, batch, keystore, kek, auditlog, logged>>

\* The world an executor built on instance i is handed: the shared
\* directory and content store, and the instance's own copy of the journal.
Seen(i) == World(fs, cs, Get(held[i]).log, nextId)

\* An executor call on an instance that returned r: append pushes onto the
\* instance's copy and save writes that copy over metadata.json.
InstanceRan(i, call, r) ==
    /\ r.err = "Ok"
    /\ fs' = r.w.fs
    /\ cs' = r.w.cs
    /\ nextId' = r.w.nid
    /\ journal' = r.w.log
    /\ held' = [held EXCEPT ![i] = Some([Get(held[i]) EXCEPT !.log = r.w.log])]
    /\ last' = Call(call, "Ok", Some(Get(r.meta).id), FALSE)
    /\ pre' = None
    /\ UNCHANGED <<txlog, pc, pending, begun, oblog, inflight, batch,
                   keystore, kek, auditlog, logged>>

InstanceDelete ==
    \E i \in Instances, p \in InputPaths :
        /\ IsSome(held[i])
        /\ nextId <= MaxJournal
        /\ InstanceRan(i, "execute", execute_delete(Seen(i), None, p))

InstanceCreate ==
    \E i \in Instances, p \in InputPaths, c \in Contents :
        /\ IsSome(held[i])
        /\ nextId <= MaxJournal
        /\ InstanceRan(i, "execute", execute_create(Seen(i), None, p, c))

\* jk_undo_last on the handle of an instance.
InstanceUndoLast ==
    \E i \in Instances :
        /\ IsSome(held[i])
        /\ nextId <= MaxJournal
        /\ InstanceRan(i, "undo", jk_undo_last(Seen(i)))

\* transaction_manager.begin on an instance: the new transaction is pushed
\* onto the instance's copy, which save writes over the transaction file.
InstanceBegin ==
    \E i \in Instances :
        /\ IsSome(held[i])
        /\ nextId <= MaxJournal
        /\ \E r \in {begin(Get(held[i]).tl, <<"tx", nextId>>, Now)} :
             /\ r.err = "Ok"
             /\ txlog' = r.tl
             /\ held' = [held EXCEPT ![i] = Some([Get(held[i]) EXCEPT !.tl = r.tl])]
        /\ nextId' = nextId + 1
        /\ last' = Call("begin", "Ok", None, FALSE)
        /\ pre' = None
        /\ UNCHANGED <<fs, cs, journal, pc, pending, begun, oblog, inflight, batch,
                       keystore, kek, auditlog, logged>>

\* jk_obliterate on the handle of an instance: the record is pushed onto
\* the instance's copy, which save writes over obliterations.json.
InstanceObliterate ==
    \E i \in Instances, h \in RequestHashes :
        /\ IsSome(held[i])
        /\ Len(Get(held[i]).ol) < MaxObl
        /\ \E r \in {obliterate(Get(held[i]).ol, cs, h, None, Some("GDPR Article 17"),
                                 Now, <<0, 255>>)} :
             /\ r.err = "Ok"
             /\ cs' = r.cs
             /\ oblog' = r.log
             /\ held' = [held EXCEPT ![i] = Some([Get(held[i]) EXCEPT !.ol = r.log])]
        /\ last' = Call("obliterate", "Ok", Some(h), FALSE)
        /\ pre' = None
        /\ UNCHANGED <<fs, journal, nextId, txlog, pc, pending, begun, inflight, batch,
                       keystore, kek, auditlog, logged>>

NextShared ==
    \/ OpenInstance
    \/ InstanceDelete
    \/ InstanceCreate
    \/ InstanceUndoLast
    \/ InstanceBegin
    \/ InstanceObliterate

SpecShared == Init /\ [][NextShared]_vars

\* ------------------------------------------------------------------------
\* Garbage collection of the journal
\* ------------------------------------------------------------------------

\* The --keep values of `jk gc` that are tried.
GcKeeps == {0, 1}

\* cmd_gc: metadata_store.prune(keep), called whatever the transaction log
\* holds.  A call with nothing to prune changes nothing.
Gc ==
    /\ pc = "idle"
    /\ nextId <= MaxJournal
    /\ \E keep \in GcKeeps :
         \E r \in {prune(journal, keep)} :
           /\ r.removed > 0
           /\ journal' = r.log
           /\ last' = Call("gc", "Ok", None, FALSE)
    /\ pre' = None
    /\ UNCHANGED <<fs, cs, nextId, txlog, pc, pending, begun, others>>

\* Transactions over create and delete, with `jk gc` run in between.
NextGc ==
    \/ ExecCreate
    \/ ExecDelete
    \/ TxBegin
    \/ TxCommit
    \/ RollbackStart
    \/ RollbackUndo
    \/ RollbackFinish
    \/ Gc

SpecGc == Init /\ [][NextGc]_vars

\* ------------------------------------------------------------------------
\* Audit log (attestation.rs)
\* ------------------------------------------------------------------------

\* get_actor: user@hostname.
Actor == "user@host"

\* Display of AuditEventType.
EventName(t) ==
    CASE t = "StoreInitialized" -> "STORE_INITIALIZED"
      [] t = "StoreUnlocked" -> "STORE_UNLOCKED"
      [] t = "KeyGenerated" -> "KEY_GENERATED"
      [] t = "KeyRetrieved" -> "KEY_RETRIEVED"
      [] t = "KeyRotated" -> "KEY_ROTATED"
      [] t = "KeyRevoked" -> "KEY_REVOKED"

\* Sha256 over the concatenated input: an injective tag.
Digest(input) == <<"sha256", input>>

\* [0u8; 32].
ZeroBytes == <<"zero32">>

\* hex::encode of 32 bytes.
Hex(bytes) == <<"hex", bytes>>

\* "0".repeat(64), the text hex::encode gives for 32 zero bytes.
GenesisHash == Hex(ZeroBytes)

\* AuditEntry::compute_hash: event id, timestamp text, event type text,
\* actor, key id and fingerprint of the details, reason, previous hash.
compute_hash(e) ==
    Hex(Digest([event_id |-> e.event_id,
                timestamp |-> Rfc3339(e.timestamp),
                event_type |-> EventName(e.event_type),
                actor |-> e.actor,
                key_id |-> IF IsSome(e.key_details)
                           THEN Some(Get(e.key_details).key_id) ELSE None,
                fingerprint |-> IF IsSome(e.key_details)
                                THEN Some(Get(e.key_details).fingerprint) ELSE None,
                reason |-> e.reason,
                previous_hash |-> e.previous_hash]))

\* serde_json::to_string of an entry, one line of audit.log.
ToLine(e) == <<"json", e>>

\* serde_json::from_str::<AuditEntry> accepts the line.
IsEntryLine(l) == l[1] = "json"

\* AuditLog::read_all: the entries of the lines that parse.
read_all(lines) ==
    LET good == SelectSeq(lines, IsEntryLine)
    IN  [i \in 1..Len(good) |-> good[i][2]]

\* get_last_hash that always answers the genesis hash: a faulty variant,
\* against which C40 is tried.
get_last_hash_genesis(lines) == GenesisHash

\* AuditLog::get_last_hash: compute_hash of the last entry, the genesis
\* hash for an empty log.
get_last_hash(lines) ==
    IF read_all(lines) = <<>> THEN GenesisHash
    ELSE compute_hash(read_all(lines)[Len(read_all(lines))])

\* The text the attestation covers: event id, timestamp, type and actor.
AttestationData(event_id, timestamp, event_type, actor) ==
    <<event_id, Rfc3339(timestamp), EventName(event_type), actor>>

\* AuditLog::compute_attestation: H(key || data || previous_hash), with
\* the zero key when none is set.
compute_attestation(key, data, previous_hash) ==
    Hex(Digest([key |-> IF IsSome(key) THEN Get(key) ELSE ZeroBytes,
                data |-> data,
                previous_hash |-> previous_hash]))

\* AuditLog::log_event: link to the last entry, attest, append one line.
log_event(lines, key, event_id, timestamp, event_type, key_details, reason) ==
    LET linked(previous_hash) ==
            [event_id |-> event_id,
             timestamp |-> timestamp,
             event_type |-> event_type,
             actor |-> Actor,
             key_details |-> key_details,
             reason |-> reason,
             previous_hash |-> previous_hash,
             attestation |->
                 compute_attestation(
                     key, AttestationData(event_id, timestamp, event_type, Actor),
                     previous_hash)]
    IN  Append(lines, ToLine(linked(get_last_hash(lines))))

\* AuditLog::verify_integrity: the first entry whose link or attestation
\* is not the expected one makes the report invalid.
verify_integrity(lines, key) ==
    LET entries == read_all(lines)
        expected_previous(i) ==
            IF i = 1 THEN GenesisHash ELSE compute_hash(entries[i - 1])
        broken(i) ==
            \/ entries[i].previous_hash # expected_previous(i)
            \/ entries[i].attestation #
                   compute_attestation(
                       key,
                       AttestationData(entries[i].event_id, entries[i].timestamp,
                                       entries[i].event_type, entries[i].actor),
                       entries[i].previous_hash)
        invalid == {i \in 1..Len(entries) : broken(i)}
    IN  IF invalid = {}
        THEN [valid |-> TRUE, total_entries |-> Len(entries), first_invalid_index |-> None]
        ELSE [valid |-> FALSE, total_entries |-> Len(entries),
              first_invalid_index |->
                  Some((CHOOSE i \in invalid : \A j \in invalid : i <= j) - 1)]

\* ------------------------------------------------------------------------
\* Key manager (keys.rs)
\* ------------------------------------------------------------------------

\* The passphrases that are tried.
Passphrases == {"p", "q"}

\* The salt KeyManager::init draws.
Salts == {<<7>>}

\* The expires_in_days arguments that are tried.
ExpiryDays == {None, Some(30)}

\* derive_kek: Argon2id of passphrase and salt.
derive_kek(passphrase, salt) == <<"argon2id", passphrase, salt>>

\* The attestation key init and unlock hand the audit log:
\* Sha256(kek || "attestation"); none before either was called.
AttestationKeyOf(k) ==
    IF IsSome(k) THEN Some(Digest(<<Get(k), "attestation">>)) ELSE None

\* hex::encode of the first 8 bytes of Sha256(key material).
Fingerprint(secret) == <<"fp", secret>>

\* wrap_key: AES-256-GCM under the KEK with the key id as associated data.
wrap_key(k, secret, metadata) ==
    [metadata |-> metadata,
     ciphertext |-> [under |-> k, aad |-> metadata.id, msg |-> secret]]

\* unwrap_key: decryption fails unless KEK and associated data are those
\* the key was wrapped with.
unwrap_key(k, wrapped) ==
    IF wrapped.ciphertext.under = k /\ wrapped.ciphertext.aad = wrapped.metadata.id
    THEN "Ok" ELSE "CryptoError"

\* A key manager and the files it works on: keystore.jks (None while it
\* does not exist), the KEK in memory, audit.log and the count of events.
KeyManager(store, k, lines, n) == [store |-> store, kek |-> k, lines |-> lines, logged |-> n]

KeyFail(m, err) == [m |-> m, err |-> err, id |-> None]

KeyDone(m, id) == [m |-> m, err |-> "Ok", id |-> id]

\* let _ = self.audit_log.log_...(): one event, with a fresh event id and
\* the reading of the clock.
Logged(m, event_type, key_details, reason) ==
    [m EXCEPT !.lines = log_event(m.lines, AttestationKeyOf(m.kek), <<"ev", m.logged + 1>>,
                                  m.logged, event_type, key_details, reason),
              !.logged = m.logged + 1]

\* KeyEventDetails, the fields that differ between events.
Details(key_id, fingerprint, new_state, rotated_from) ==
    Some([key_id |-> key_id, fingerprint |-> fingerprint,
          new_state |-> new_state, rotated_from |-> rotated_from])

\* position / find of the first key with the id, 0 when there is none.
KeyIndex(keys, id) ==
    LET hits == {i \in 1..Len(keys) : keys[i].metadata.id = id}
    IN  IF hits = {} THEN 0 ELSE CHOOSE i \in hits : \A j \in hits : i <= j

\* KeyManager::init.
init(m, passphrase, salt) ==
    IF IsSome(m.store) THEN KeyFail(m, "AlreadyExists")
    ELSE KeyDone(Logged([m EXCEPT !.store = Some([salt |-> salt, keys |-> <<>>]),
                                  !.kek = Some(derive_kek(passphrase, salt))],
                        "StoreInitialized", None, None),
                 None)

\* verify_kek: unwrap the first key; with no key yet, only the magic of
\* the header is looked at.
verify_kek(k, store) ==
    IF store.keys # <<>> THEN unwrap_key(k, store.keys[1]) = "Ok" ELSE TRUE

\* KeyManager::unlock.
unlock(m, passphrase) ==
    IF ~IsSome(m.store) THEN KeyFail(m, "NotInitialized")
    ELSE IF ~verify_kek(derive_kek(passphrase, Get(m.store).salt), Get(m.store))
    THEN KeyFail(m, "InvalidPassphrase")
    ELSE KeyDone(Logged([m EXCEPT !.kek = Some(derive_kek(passphrase, Get(m.store).salt))],
                        "StoreUnlocked", None, None),
                 None)

\* KeyManager::generate, with the id and the key material it draws.
generate_key(m, algorithm, purpose, expires_in_days, id, secret) ==
    IF ~IsSome(m.kek) THEN KeyFail(m, "NotInitialized")
    ELSE LET metadata ==
                 [id |-> id, algorithm |-> algorithm, purpose |-> purpose,
                  created_at |-> m.logged,
                  expires_at |-> IF IsSome(expires_in_days)
                                 THEN Some(m.logged + Get(expires_in_days)) ELSE None,
                  state |-> "Active", rotation_of |-> None,
                  fingerprint |-> Fingerprint(secret), description |-> None]
         IN  KeyDone(Logged([m EXCEPT !.store =
                                Some([Get(m.store) EXCEPT !.keys =
                                         Append(@, wrap_key(Get(m.kek), secret, metadata))])],
                            "KeyGenerated",
                            Details(id, Fingerprint(secret), Some("Active"), None), None),
                     Some(id))

\* KeyManager::retrieve: the event is logged before the key is unwrapped.
retrieve(m, id) ==
    IF ~IsSome(m.kek) THEN KeyFail(m, "NotInitialized")
    ELSE IF KeyIndex(Get(m.store).keys, id) = 0 THEN KeyFail(m, "KeyNotFound")
    ELSE LET wrapped == Get(m.store).keys[KeyIndex(Get(m.store).keys, id)]
         IN  IF wrapped.metadata.state \in {"Revoked", "Obliterated"}
             THEN KeyFail(m, "AlreadyRevoked")
             ELSE [m |-> Logged(m, "KeyRetrieved",
                                Details(id, wrapped.metadata.fingerprint, None, None), None),
                   err |-> unwrap_key(Get(m.kek), wrapped),
                   id |-> Some(id)]

\* rotate that leaves the old key as it is: a faulty variant, against
\* which C39 is tried.
rotate_keeping_old(m, id, new_id, secret) ==
    IF ~IsSome(m.kek) THEN KeyFail(m, "NotInitialized")
    ELSE IF KeyIndex(Get(m.store).keys, id) = 0 THEN KeyFail(m, "KeyNotFound")
    ELSE KeyDone([m EXCEPT !.store =
                     Some([Get(m.store) EXCEPT !.keys =
                              Append(@, [Get(m.store).keys[KeyIndex(Get(m.store).keys, id)]
                                         EXCEPT !.metadata.id = new_id,
                                                !.metadata.rotation_of = Some(id)])])],
                 Some(new_id))

\* KeyManager::rotate, with the id and the key material it draws.
rotate(m, id, new_id, secret) ==
    IF ~IsSome(m.kek) THEN KeyFail(m, "NotInitialized")
    ELSE IF KeyIndex(Get(m.store).keys, id) = 0 THEN KeyFail(m, "KeyNotFound")
    ELSE LET old_idx == KeyIndex(Get(m.store).keys, id)
             old_meta == Get(m.store).keys[old_idx].metadata
             new_metadata ==
                 [id |-> new_id, algorithm |-> old_meta.algorithm,
                  purpose |-> old_meta.purpose, created_at |-> m.logged,
                  expires_at |-> IF IsSome(old_meta.expires_at)
                                 THEN Some(m.logged + 365) ELSE None,
                  state |-> "Active", rotation_of |-> Some(id),
                  fingerprint |-> Fingerprint(secret),
                  description |-> old_meta.description]
             pushed == Append(Get(m.store).keys, wrap_key(Get(m.kek), secret, new_metadata))
         IN  IF old_meta.state = "Revoked" THEN KeyFail(m, "AlreadyRevoked")
             ELSE KeyDone(Logged([m EXCEPT !.store =
                                     Some([Get(m.store) EXCEPT !.keys =
                                              [pushed EXCEPT ![old_idx].metadata.state =
                                                                 "Revoked"]])],
                                 "KeyRotated",
                                 Details(new_id, Fingerprint(secret), Some("Active"), Some(id)),
                                 Some(<<"Rotated from key", id, old_meta.fingerprint>>)),
                          Some(new_id))

\* KeyManager::revoke.
revoke(m, id) ==
    IF ~IsSome(m.kek) THEN KeyFail(m, "NotInitialized")
    ELSE IF KeyIndex(Get(m.store).keys, id) = 0 THEN KeyFail(m, "KeyNotFound")
    ELSE LET idx == KeyIndex(Get(m.store).keys, id)
             found == Get(m.store).keys[idx].metadata
         IN  IF found.state = "Revoked" THEN KeyFail(m, "AlreadyRevoked")
             ELSE KeyDone(Logged([m EXCEPT !.store =
                                     Some([Get(m.store) EXCEPT
                                              !.keys[idx].metadata.state = "Revoked"])],
                                 "KeyRevoked",
                                 Details(id, found.fingerprint, Some("Revoked"), None), None),
                          Some(id))

\* The key manager as the state holds it.
KeyHere == KeyManager(keystore, kek, auditlog, logged)

\* The wrapped keys in keystore.jks.
StoredKeys == IF IsSome(keystore) THEN Get(keystore).keys ELSE <<>>

\* The id and the key material the next generate or rotate draws.
NextKeyId == <<"key", Len(StoredKeys) + 1>>

NextSecret == <<"secret", Len(StoredKeys) + 1>>

\* A call on the key manager that returned r.  A call that fails before
\* changing anything leaves every variable as it was.
KeyCall(call, r) ==
    /\ logged < MaxAudit
    /\ r.err = "Ok" \/ r.m # KeyHere
    /\ keystore' = r.m.store
    /\ kek' = r.m.kek
    /\ auditlog' = r.m.lines
    /\ logged' = r.m.logged
    /\ last' = Call(call, r.err, r.id, FALSE)
    /\ pre' = None
    /\ UNCHANGED <<fs, cs, journal, nextId, txlog, pc, pending, begun,
                   oblog, inflight, batch, held>>

KeyInit ==
    \E passphrase \in Passphrases, salt \in Salts :
        KeyCall("init", init(KeyHere, passphrase, salt))

KeyUnlock == \E passphrase \in Passphrases : KeyCall("unlock", unlock(KeyHere, passphrase))

\* The manager is dropped and KeyManager::new makes another: no KEK, no
\* attestation key.
KeyLock ==
    /\ IsSome(kek)
    /\ kek' = None
    /\ last' = Call("lock", "Ok", None, FALSE)
    /\ pre' = None
    /\ UNCHANGED <<fs, cs, journal, nextId, txlog, pc, pending, begun,
                   oblog, inflight, batch, held, keystore, auditlog, logged>>

KeyGenerate ==
    \E expires_in_days \in ExpiryDays :
        /\ Len(StoredKeys) < MaxKeys
        /\ KeyCall("generate",
                   generate_key(KeyHere, "Aes256Gcm", "Encryption", expires_in_days,
                                NextKeyId, NextSecret))

KeyRetrieve ==
    \E i \in 1..Len(StoredKeys) :
        KeyCall("retrieve", retrieve(KeyHere, StoredKeys[i].metadata.id))

KeyRotate ==
    \E i \in 1..Len(StoredKeys) :
        /\ Len(StoredKeys) < MaxKeys
        /\ KeyCall("rotate", rotate(KeyHere, StoredKeys[i].metadata.id, NextKeyId, NextSecret))

KeyRevoke ==
    \E i \in 1..Len(StoredKeys) :
        KeyCall("revoke", revoke(KeyHere, StoredKeys[i].metadata.id))

NextKeys ==
    \/ KeyInit
    \/ KeyUnlock
    \/ KeyLock
    \/ KeyGenerate
    \/ KeyRetrieve
    \/ KeyRotate
    \/ KeyRevoke

SpecKeys == Init /\ [][NextKeys]_vars

\* ------------------------------------------------------------------------
\* Properties
\* ------------------------------------------------------------------------

\* What rollback and undo are said to restore at a path: whether it
\* exists and as what, content (and with it size), permission bits,
\* symlink target.  Modification times are not compared.
Visible(n) == [kind |-> n.kind, data |-> n.data, mode |-> n.mode, target |-> n.target]

SameTree(f, g) == \A p \in Paths : Visible(f[p]) = Visible(g[p])

\* C1: after a successful rollback of a transaction in which only
\* successful TransactionExecutor::execute calls changed the world, the
\* file system is indistinguishable from the one at begin.
C1_RollbackRestoresTree ==
    (/\ pc = "idle"
     /\ last.call = "rollback"
     /\ last.err = "Ok"
     /\ IsSome(begun)
     /\ Get(begun).pure)
    => SameTree(fs, Get(begun).fs)

\* C2: a successful execute followed at once by a successful undo of the
\* record it returned restores existence, content, permissions, size and
\* symlink target of every path.
C2_ExecuteUndoRoundTrip ==
    (last.call = "undo" /\ last.err = "Ok" /\ last.rt) => SameTree(fs, Get(pre))

\* C3: a record's undone flag never goes back to false and its
\* undo_operation_id, once set, is never replaced; undo of a record already
\* undone returns OperationFailed and leaves journal, file system and
\* content store as they were.
C3_UndoneOnlyOnce ==
    [][/\ \A i \in 1..Len(journal) : \A j \in 1..Len(journal') :
            (journal[i].undone /\ journal'[j].id = journal[i].id)
            => /\ journal'[j].undone
               /\ journal'[j].undo_operation_id = journal[i].undo_operation_id
       /\ \A j \in 1..Len(journal') :
            journal'[j].undone
            => undo(Here', None, journal'[j].id) = Fail(Here', "OperationFailed")]_vars

\* A record has been undone, later calls followed, and a second undo of it
\* is refused.
C3_Witness ==
    \E i \in 1..Len(journal) :
        /\ journal[i].undone
        /\ Len(journal) >= i + 2
        /\ undo(Here, None, journal[i].id).err = "OperationFailed"

\* C4: at most one transaction is Active; the active pointer is set
\* exactly when one is, and names it; begin while one is active returns
\* TransactionActive and leaves the transaction log as it was.
C4_SingleActive ==
    LET act == {i \in 1..Len(txlog.transactions) : txlog.transactions[i].state = "Active"}
    IN  /\ Cardinality(act) <= 1
        /\ IsSome(txlog.active_transaction_id) <=> act # {}
        /\ \A i \in act : txlog.active_transaction_id = Some(txlog.transactions[i].id)
        /\ act # {} =>
              begin(txlog, <<"tx", Len(txlog.transactions) + 1>>, Now)
                  = [tl |-> txlog, err |-> "TransactionActive"]

\* A second transaction is active after the first was completed, and
\* begin is refused.
C4_Witness ==
    /\ Len(txlog.transactions) = 2
    /\ txlog.transactions[1].state # "Active"
    /\ txlog.transactions[2].state = "Active"
    /\ begin(txlog, <<"tx", 3>>, Now).err = "TransactionActive"

\* The operation ids of the active transaction.
ActiveIds == txlog.transactions[active_index(txlog)].operation_ids

\* C5: inside rollback the ids still to be undone are a prefix of
\* operation_ids taken from its end backwards, and every operation after
\* that prefix is already undone: undo is invoked in reverse order of
\* execution, never on an earlier operation before a later one.
C5_RollbackNewestFirst ==
    pc = "rollback" =>
        /\ active_index(txlog) # 0
        /\ Len(pending) <= Len(ActiveIds)
        /\ \A n \in 1..Len(pending) : pending[n] = ActiveIds[Len(pending) - n + 1]
        /\ \A j \in (Len(pending) + 1)..Len(ActiveIds) :
               GetRecord(journal, ActiveIds[j]).undone

\* Rollback of a transaction of two operations has undone the second and
\* is about to undo the first.
C5_Witness ==
    /\ pc = "rollback"
    /\ Len(ActiveIds) = 2
    /\ pending = <<ActiveIds[1]>>
    /\ GetRecord(journal, ActiveIds[2]).undone
    /\ ~GetRecord(journal, ActiveIds[1]).undone

\* C6: when an undo inside rollback fails, rollback ends there and
\* returns that error: no further id is taken, no record is marked undone
\* by the failed step, the transaction log is untouched, so the
\* transaction stays Active with the active pointer naming it.
C6_RollbackStopsAtFailure ==
    [][(pc = "rollback" /\ pending # <<>> /\ undo(Here, None, Head(pending)).err # "Ok")
       => /\ pc' = "idle"
          /\ pending' = <<>>
          /\ last'.call = "rollback"
          /\ last'.err = undo(Here, None, Head(pending)).err
          /\ \A i \in 1..Len(journal) : journal'[i].undone = journal[i].undone
          /\ txlog' = txlog
          /\ active_index(txlog') # 0
          /\ txlog'.transactions[active_index(txlog')].state = "Active"]_vars

\* A rollback of a two-operation transaction undid the second operation,
\* failed on the first (undone earlier by a plain undo) and returned; the
\* transaction is still the active one.
C6_Witness ==
    /\ pc = "idle"
    /\ last.call = "rollback"
    /\ last.err = "OperationFailed"
    /\ active_index(txlog) # 0
    /\ Len(ActiveIds) = 2
    /\ last.id = Some(ActiveIds[1])
    /\ GetRecord(journal, ActiveIds[2]).undone

\* C7: when rollback has returned Ok the transaction it rolled back (the
\* most recent one) is RolledBack and no transaction is active; every
\* record named by a RolledBack transaction has undone = true.
C7_RolledBackAllUndone ==
    /\ (pc = "idle" /\ last.call = "rollback" /\ last.err = "Ok")
       => /\ ~IsSome(txlog.active_transaction_id)
          /\ Len(txlog.transactions) > 0
          /\ txlog.transactions[Len(txlog.transactions)].state = "RolledBack"
    /\ \A i \in 1..Len(txlog.transactions) :
          txlog.transactions[i].state = "RolledBack"
          => \A k \in 1..Len(txlog.transactions[i].operation_ids) :
                /\ HasRecord(journal, txlog.transactions[i].operation_ids[k])
                /\ GetRecord(journal, txlog.transactions[i].operation_ids[k]).undone

\* Rollback of a transaction of two operations has just returned Ok.
C7_Witness ==
    /\ pc = "idle"
    /\ last.call = "rollback"
    /\ last.err = "Ok"
    /\ Len(txlog.transactions[Len(txlog.transactions)].operation_ids) = 2

\* C8: a commit leaves journal, file system and content store as they
\* were, marks the transaction that was active Committed and clears the
\* active pointer; every record of the committed transaction is still in
\* the journal and rollback now returns NoActiveTransaction.
C8_CommitFinal ==
    [][(last'.call = "commit" /\ txlog' # txlog)
       => /\ journal' = journal
          /\ fs' = fs
          /\ cs' = cs
          /\ active_index(txlog) # 0
          /\ txlog'.transactions[active_index(txlog)].state = "Committed"
          /\ ~IsSome(txlog'.active_transaction_id)
          /\ \A k \in 1..Len(ActiveIds) : HasRecord(journal', ActiveIds[k])
          /\ rollback_entry(txlog').err = "NoActiveTransaction"]_vars

\* A transaction holding an operation has just been committed and
\* rollback is refused.
C8_Witness ==
    /\ last.call = "commit"
    /\ txlog.transactions[Len(txlog.transactions)].state = "Committed"
    /\ txlog.transactions[Len(txlog.transactions)].operation_ids # <<>>
    /\ rollback_entry(txlog).err = "NoActiveTransaction"

\* add_operation, commit and rollback all return NoActiveTransaction.
RefusedWithoutActive(tl, now, ids) ==
    /\ \A id \in ids : add_operation(tl, id) = [tl |-> tl, err |-> "NoActiveTransaction"]
    /\ commit(tl, now) = [tl |-> tl, err |-> "NoActiveTransaction"]
    /\ rollback_entry(tl).err = "NoActiveTransaction"

\* C9: a transaction that is Committed or RolledBack is never changed
\* again (state, completed_at, operation_ids), whatever is called later;
\* with no active transaction add_operation, commit and rollback return
\* NoActiveTransaction.
C9_TerminalIsFinal ==
    [][/\ \A i \in 1..Len(txlog.transactions) :
            txlog.transactions[i].state # "Active"
            => /\ i <= Len(txlog'.transactions)
               /\ txlog'.transactions[i] = txlog.transactions[i]
       /\ ~IsSome(txlog.active_transaction_id)
          => RefusedWithoutActive(txlog, Now, {journal[i].id : i \in 1..Len(journal)})
       /\ ~IsSome(txlog'.active_transaction_id)
          => RefusedWithoutActive(txlog', Now', {journal'[i].id : i \in 1..Len(journal')})]_vars

\* Two transactions, each holding an operation, have both been completed:
\* the first stayed as it was while the second began, took an operation
\* and ended.
C9_Witness ==
    /\ Len(txlog.transactions) = 2
    /\ txlog.transactions[1].state # "Active"
    /\ txlog.transactions[2].state # "Active"
    /\ txlog.transactions[1].operation_ids # <<>>
    /\ txlog.transactions[2].operation_ids # <<>>
    /\ RefusedWithoutActive(txlog, Now, {journal[i].id : i \in 1..Len(journal)})

\* The ids of the journal records stamped with a transaction id, in
\* journal order.
StampedIds(tid) ==
    LET stamped(r) == r.transaction_id = Some(tid)
        recs == SelectSeq(journal, stamped)
    IN  [k \in 1..Len(recs) |-> recs[k].id]

C11_RecordBeforeMutation ==
    (IsSome(inflight) /\ ~HasRecord(journal, Get(inflight).id))
    => fs = Get(pre)

\* The journal of w with exactly one more record, of the given type and
\* path, than the journal had before.
RecordAdded(w, opType, path) ==
    /\ Len(w.log) = Len(journal) + 1
    /\ SubSeq(w.log, 1, Len(journal)) = journal
    /\ w.log[Len(w.log)].op_type = opType
    /\ w.log[Len(w.log)].path = path

\* C12: when the preconditions hold and the capture succeeds but the
\* std::fs mutation fails, execute returns the error and the journal holds
\* the record of the operation, whose content hash (if any) is in the
\* content store.  Stated for Rmdir of a directory that remove_dir refuses
\* and for Append to a path that cannot be opened for appending.
C12_FailedMutationLeavesRecord ==
    /\ \A p \in Paths :
          (IsDir(fs, p) /\ RemoveDir(fs, p).e = "Io")
          => /\ execute_rmdir(Here, None, p).err = "Io"
             /\ RecordAdded(execute_rmdir(Here, None, p).w, "Rmdir", p)
    /\ \A p \in Paths, c \in AppendContents :
          (Exists(fs, p) /\ AppendFile(fs, p, c).e = "Io")
          => /\ execute_append(Here, None, p, c).err = "Io"
             /\ RecordAdded(execute_append(Here, None, p, c).w, "Append", p)
             /\ StoreHas(execute_append(Here, None, p, c).w.cs, HashOf(BytesBlob(c)))

\* A call that returned the error e with file system and journal as they
\* were before it.
Refused(r, e) == r.err = e /\ r.w.fs = fs /\ r.w.log = journal

\* C13: an execute that fails one of its precondition checks, or fails
\* reading the content it has to capture, returns the error with the file
\* system and the journal unchanged, for every operation and every input.
C13_EarlyFailureChangesNothing ==
    LET tid == active_id(txlog)
    IN  /\ \A p \in Paths :
              /\ ~Exists(fs, p)
                 => /\ Refused(execute_delete(Here, tid, p), "FileNotFound")
                    /\ Refused(execute_rmdir(Here, tid, p), "DirectoryNotFound")
                    /\ Refused(execute_rmdir_recursive(Here, tid, p), "DirectoryNotFound")
                    /\ Refused(execute_touch(Here, tid, p, FALSE), "FileNotFound")
                    /\ \A c \in Contents : Refused(execute_modify(Here, tid, p, c), "FileNotFound")
                    /\ \A c \in AppendContents :
                          Refused(execute_append(Here, tid, p, c), "FileNotFound")
                    /\ \A n \in TruncateSizes :
                          Refused(execute_truncate(Here, tid, p, n), "FileNotFound")
                    /\ \A m \in ChmodModes : Refused(execute_chmod(Here, tid, p, m), "FileNotFound")
                    /\ \A d \in Paths \ {p} :
                          /\ Refused(execute_move(Here, tid, p, d), "FileNotFound")
                          /\ Refused(execute_copy(Here, tid, p, d), "FileNotFound")
              /\ Exists(fs, p)
                 => /\ \A c \in Contents : Refused(execute_create(Here, tid, p, c), "PathExists")
                    /\ \A b \in BOOLEAN : Refused(execute_mkdir(Here, tid, p, b), "PathExists")
                    /\ \A s \in Paths \ {p} :
                          Exists(fs, s)
                          => /\ Refused(execute_move(Here, tid, s, p), "PathExists")
                             /\ Refused(execute_copy(Here, tid, s, p), "PathExists")
                    /\ p \in SymlinkPaths
                       => \A t \in SymlinkTargets :
                             Refused(execute_symlink(Here, tid, t, p), "PathExists")
              /\ (Exists(fs, p) /\ ~IsDir(fs, p))
                 => /\ Refused(execute_rmdir(Here, tid, p), "OperationFailed")
                    /\ Refused(execute_rmdir_recursive(Here, tid, p), "OperationFailed")
              /\ (Exists(fs, p) /\ ~CanRead(fs, p))
                 => /\ Refused(execute_delete(Here, tid, p), "Io")
                    /\ \A c \in Contents : Refused(execute_modify(Here, tid, p, c), "Io")
                    /\ \A n \in TruncateSizes : Refused(execute_truncate(Here, tid, p, n), "Io")

\* With a record already in the journal, a path is missing (a Touch that
\* may not create it is refused) and a directory stands where Delete would
\* have to read a file (its capture fails).
C13_Witness ==
    /\ Len(journal) >= 1
    /\ ~Exists(fs, <<"a">>)
    /\ Refused(execute_touch(Here, active_id(txlog), <<"a">>, FALSE), "FileNotFound")
    /\ IsDir(fs, <<"d">>)
    /\ Refused(execute_delete(Here, active_id(txlog), <<"d">>), "Io")

\* Every record has undo_operation_id set exactly when it is undone, and
\* then it names a record further on in the log.
UndoLinksSound(log) ==
    \A i \in 1..Len(log) :
        /\ log[i].undone <=> IsSome(log[i].undo_operation_id)
        /\ log[i].undone
           => \E j \in (i + 1)..Len(log) : log[j].id = Get(log[i].undo_operation_id)

\* C14: a successful undo (called directly or by the rollback loop) adds
\* exactly one record, not itself undone, to the end of the journal, marks
\* the original undone with undo_operation_id naming that record and
\* leaves every other record as it was; in every state the undo links are
\* sound; undo of an id the journal does not hold returns
\* InvalidOperationId and changes nothing.
C14_UndoAppendsAndLinks ==
    [][/\ UndoLinksSound(journal)
       /\ UndoLinksSound(journal')
       /\ \A id \in {<<"op", 0>>, <<"op", nextId'>>} :
             undo(Here', None, id) = Fail(Here', "InvalidOperationId")
       /\ (/\ last'.call \in {"undo", "rollback"}
           /\ last'.err \in {"Ok", "Running"}
           /\ IsSome(last'.id))
          => /\ Len(journal') = Len(journal) + 1
             /\ HasRecord(journal, Get(last'.id))
             /\ ~GetRecord(journal, Get(last'.id)).undone
             /\ ~journal'[Len(journal')].undone
             /\ journal'[Len(journal')].id \notin {journal[i].id : i \in 1..Len(journal)}
             /\ \A i \in 1..Len(journal) :
                   IF i = IndexOf(journal, Get(last'.id))
                   THEN journal'[i] = [journal[i] EXCEPT
                                         !.undone = TRUE,
                                         !.undo_operation_id =
                                             Some(journal'[Len(journal')].id)]
                   ELSE journal'[i] = journal[i]]_vars

\* Two records have been undone, each linked to the undo record appended
\* for it, and an id the journal does not hold is refused.
C14_Witness ==
    /\ Len(journal) = 4
    /\ journal[1].undone
    /\ journal[2].undone
    /\ journal[1].undo_operation_id # journal[2].undo_operation_id
    /\ ~journal[4].undone
    /\ undo(Here, None, <<"op", nextId>>).err = "InvalidOperationId"

\* C15: right after a successful execute, undoing its record and then
\* undoing the record that undo appended succeeds and yields the tree as
\* it was right after the execute.
C15_UndoOfUndoIsRedo ==
    (last.call = "execute" /\ last.err = "Ok" /\ IsSome(last.id))
    => LET redone(u1) ==
               u1.err = "Ok"
               => LET same(u2) == u2.err = "Ok" /\ SameTree(u2.w.fs, fs)
                  IN  same(undo(u1.w, None, Get(u1.meta).id))
       IN  redone(undo(Here, None, Get(last.id)))

\* C16: a prune never removes a record whose id is among the
\* operation_ids of the active transaction.
C16_PruneKeepsActiveRecords ==
    [][(last'.call = "gc" /\ active_index(txlog) # 0)
       => \A k \in 1..Len(ActiveIds) :
            HasRecord(journal, ActiveIds[k]) => HasRecord(journal', ActiveIds[k])]_vars

\* How many records of an obliteration log name the hash.
RecordsFor(ob, h) == Cardinality({i \in 1..Len(ob) : ob[i].content_hash = h})

\* C17: obliterating a hash that is in the store succeeds; afterwards
\* exists(h) is false and retrieve(h) fails, the obliteration log is the
\* old one with exactly one record added, which names h, the reason and
\* the legal basis given, and whose proof passes verify_commitment.
C17_ObliterateRemovesAndRecords ==
    \A h \in RequestHashes, reason \in Reasons, legal_basis \in LegalBases,
       nonceBytes \in Nonces :
        LET after(r) ==
                r.err = "Ok"
                => /\ ~StoreHas(r.cs, h)
                   /\ Retrieve(r.cs, h).e # "Ok"
                   /\ r.log = Append(oblog, Get(r.rec))
                   /\ RecordsFor(r.log, h) = RecordsFor(oblog, h) + 1
                   /\ Get(r.rec).content_hash = h
                   /\ Get(r.rec).reason = reason
                   /\ Get(r.rec).legal_basis = legal_basis
                   /\ Get(r.rec).proof.content_hash = h
                   /\ verify_commitment(Get(r.rec).proof)
        IN  /\ after(obliterate(oblog, cs, h, reason, legal_basis, Now, nonceBytes))
            /\ StoreHas(cs, h)
               => obliterate(oblog, cs, h, reason, legal_basis, Now, nonceBytes).err = "Ok"

\* An obliteration has just run: its hash is gone from the store, its
\* record, with a reason, is the last of the log, and another blob is
\* still stored.
C17_Witness ==
    /\ last.call = "obliterate"
    /\ last.err = "Ok"
    /\ ~StoreHas(cs, Get(last.id))
    /\ cs # {}
    /\ oblog[Len(oblog)].content_hash = Get(last.id)
    /\ IsSome(oblog[Len(oblog)].reason)
    /\ verify_commitment(oblog[Len(oblog)].proof)

\* C18: verify_proof answers true for a proof id only if the recomputed
\* commitment matches and the content store holds nothing at the
\* proof's content hash.
C18_VerifyChecksStore ==
    \A i \in 1..Len(oblog) :
        LET answer == verify_proof(oblog, oblog[i].proof.id)
        IN  (answer.err = "Ok" /\ answer.ok)
            => /\ verify_commitment(oblog[i].proof)
               /\ ~StoreHas(cs, oblog[i].proof.content_hash)

\* The blobs the undo of a record retrieves: the captured content of a
\* Delete, Modify or Truncate, the manifest of a recursive Rmdir and the
\* files that manifest lists.
RequiredHashes(rec) ==
    IF rec.op_type \notin {"Delete", "Modify", "Truncate", "Rmdir"} \/ ~IsSome(rec.content_hash)
    THEN {}
    ELSE {Get(rec.content_hash)}
         \cup (IF rec.op_type = "Rmdir" /\ Get(rec.content_hash)[2].kind = "manifest"
               THEN {Get(rec.content_hash)[2].manifest[k].hash :
                       k \in 1..Len(Get(rec.content_hash)[2].manifest)}
               ELSE {})

Obliterated(h) == ~StoreHas(cs, h) /\ \E k \in 1..Len(oblog) : oblog[k].content_hash = h

Wins(hashes, store) ==
    {i \in 1..Len(hashes) :
        StoreHas(store, hashes[i]) /\ \A j \in 1..(i - 1) : hashes[j] # hashes[i]}

\* The k-th smallest member of a set of positions.
Nth(S, k) == CHOOSE i \in S : Cardinality({j \in S : j < i}) = k - 1

\* C20: a batch gives every hash of the request exactly one entry, in
\* request order: in successful when its obliteration succeeded, in
\* failed (with FileNotFound) otherwise, so the two lists together are as
\* long as the request, repeats included; a hash after a failed one is
\* still obliterated and logged.
C20_BatchAttemptsEveryHash ==
    [][last'.call = "obliterate_batch"
       => LET b == Get(batch')
              won == Wins(b.hashes, cs)
              lost == (1..Len(b.hashes)) \ Wins(b.hashes, cs)
          IN  /\ Len(b.successful) + Len(b.failed) = Len(b.hashes)
              /\ Len(b.successful) = Cardinality(won)
              /\ Len(b.failed) = Cardinality(lost)
              /\ \A k \in 1..Len(b.successful) :
                    b.successful[k].content_hash = b.hashes[Nth(won, k)]
              /\ \A k \in 1..Len(b.failed) :
                    b.failed[k] = <<b.hashes[Nth(lost, k)], "FileNotFound">>
              /\ oblog' = oblog \o b.successful
              /\ \A i \in won : ~StoreHas(cs', b.hashes[i])]_vars

\* A batch whose first hash failed and whose second was obliterated.
C20_Witness ==
    /\ last.call = "obliterate_batch"
    /\ IsSome(batch)
    /\ Len(Get(batch).hashes) = 2
    /\ Get(batch).hashes[1] = MissingHash
    /\ Len(Get(batch).failed) = 1
    /\ Len(Get(batch).successful) = 1
    /\ Get(batch).successful[1].content_hash = Get(batch).hashes[2]
    /\ ~StoreHas(cs, Get(batch).hashes[2])

\* C21: obliterate of a hash at which the content store holds nothing
\* returns FileNotFound, with the obliteration log and every blob as they
\* were.
C21_ObliterateMissingRefused ==
    \A h \in RequestHashes, reason \in Reasons, legal_basis \in LegalBases,
       nonceBytes \in Nonces :
        ~StoreHas(cs, h)
        => obliterate(oblog, cs, h, reason, legal_basis, Now, nonceBytes)
               = [err |-> "FileNotFound", cs |-> cs, log |-> oblog, rec |-> None]

\* A hash the journal refers to has been obliterated, other blobs are
\* still stored, and obliterating that hash once more is refused.
C21_Witness ==
    /\ Len(oblog) = 1
    /\ cs # {}
    /\ \E i \in 1..Len(journal) :
         /\ IsSome(journal[i].content_hash)
         /\ Get(journal[i].content_hash) = oblog[1].content_hash
         /\ ~StoreHas(cs, oblog[1].content_hash)
         /\ obliterate(oblog, cs, oblog[1].content_hash, None, None, Now, <<0, 255>>).err
                = "FileNotFound"

\* C30: when a recursive rmdir has just been undone, the directory is
\* there again and every regular file that was under it before the rmdir,
\* at whatever depth, is a regular file again at the same path with the
\* same bytes.
C30_RmdirRecursiveUndoRestoresFiles ==
    (/\ last.call = "undo"
     /\ last.err = "Ok"
     /\ last.rt
     /\ GetRecord(journal, Get(last.id)).op_type = "Rmdir"
     /\ IsSome(GetRecord(journal, Get(last.id)).content_hash))
    => LET dir == GetRecord(journal, Get(last.id)).path
       IN  /\ IsDir(fs, dir)
           /\ \A q \in Paths :
                 (StrictlyUnder(dir, q) /\ Get(pre)[q].kind = "file")
                 => fs[q].kind = "file" /\ fs[q].data = Get(pre)[q].data

\* The nested tree after rmdir -r d and its undo: d/f and d/s/g are back.
C30_Witness ==
    /\ last.call = "undo"
    /\ last.err = "Ok"
    /\ last.rt
    /\ Len(journal) = 2
    /\ journal[1].op_type = "Rmdir"
    /\ journal[1].path = <<"d">>
    /\ Get(pre)[<<"d", "s", "g">>].kind = "file"
    /\ fs[<<"d", "s", "g">>].data = <<1>>
    /\ fs[<<"d", "f">>].data = <<2>>

\* The undo that has just succeeded undid the record the last execute
\* wrote; pre is the tree before that execute.
JustUndone(opTypes) ==
    /\ last.call = "undo"
    /\ last.err = "Ok"
    /\ last.rt
    /\ GetRecord(journal, Get(last.id)).op_type \in opTypes

Undone == GetRecord(journal, Get(last.id))

Unchanged(u, e) == u.err = e /\ u.w = Here

\* Something is at the path, a link that leads nowhere included.
Occupied(p) == Lstat(fs, p).kind # "none"

\* C26: for a record that is not undone, undo of a Delete (with its
\* captured content in the store) or of a Move whose original path is
\* occupied again returns PathExists; undo of a Move, Copy or Create whose
\* path to move back or remove is gone returns FileNotFound; each time
\* nothing is changed and the record stays not undone.
C26_UndoSeesConflicts ==
    \A i \in 1..Len(journal) :
        LET rec == journal[i]
            u == undo(Here, None, rec.id)
        IN  ~rec.undone
            => /\ (/\ rec.op_type = "Delete"
                   /\ IsSome(rec.content_hash)
                   /\ Occupied(rec.path))
                  => Unchanged(u, "PathExists")
               /\ (/\ rec.op_type = "Move"
                   /\ Exists(fs, Get(rec.path_secondary))
                   /\ Occupied(rec.path))
                  => Unchanged(u, "PathExists")
               /\ (/\ rec.op_type \in {"Move", "Copy"}
                   /\ ~Occupied(Get(rec.path_secondary)))
                  => Unchanged(u, "FileNotFound")
               /\ (rec.op_type = "Create" /\ ~Occupied(rec.path))
                  => Unchanged(u, "FileNotFound")

\* C27: when the delete of a regular file has just been undone, the path
\* holds a regular file with the bytes and the permission bits it had
\* before the delete.
C27_DeleteUndoRestoresFile ==
    (JustUndone({"Delete"}) /\ Lstat(Get(pre), Undone.path).kind = "file")
    => /\ Lstat(fs, Undone.path).kind = "file"
       /\ Lstat(fs, Undone.path).data = Lstat(Get(pre), Undone.path).data
       /\ Lstat(fs, Undone.path).mode = Lstat(Get(pre), Undone.path).mode

\* A file with mode 0600 was deleted and is back with that mode.
C27_Witness ==
    /\ JustUndone({"Delete"})
    /\ Lstat(Get(pre), Undone.path).kind = "file"
    /\ Lstat(Get(pre), Undone.path).mode = ModePrivate
    /\ Lstat(fs, Undone.path).mode = ModePrivate
    /\ Lstat(fs, Undone.path).data = <<1>>

\* C28: Modify, Truncate and Append records are written with is_delta =
\* false, and when such an operation on a regular file has just been
\* undone the file has the bytes it had before the operation.
C28_FullContentUndoRestoresBytes ==
    /\ \A i \in 1..Len(journal) :
          journal[i].op_type \in {"Modify", "Truncate", "Append"} => ~journal[i].is_delta
    /\ (JustUndone({"Modify", "Truncate", "Append"})
           /\ Lstat(Get(pre), Undone.path).kind = "file")
       => /\ Lstat(fs, Undone.path).kind = "file"
          /\ Lstat(fs, Undone.path).data = Lstat(Get(pre), Undone.path).data

\* A one-byte file was truncated to a larger size and is back to its byte.
C28_Witness ==
    /\ JustUndone({"Truncate"})
    /\ Lstat(Get(pre), Undone.path).kind = "file"
    /\ Len(Lstat(Get(pre), Undone.path).data) = 1
    /\ journal[Len(journal) - 1].op_type = "Truncate"
    /\ Lstat(fs, Undone.path).data = Lstat(Get(pre), Undone.path).data

\* C29: when a move has just been undone, the source holds what it held
\* before the move and the destination is absent; when a copy has just
\* been undone, the destination is absent and the source is as it was.
C29_MoveCopyUndo ==
    JustUndone({"Move", "Copy"})
    => /\ Visible(Lstat(fs, Undone.path)) = Visible(Lstat(Get(pre), Undone.path))
       /\ Lstat(fs, Get(Undone.path_secondary)).kind = "none"

\* A file was moved and moved back by the undo.
C29_Witness ==
    /\ JustUndone({"Move"})
    /\ Lstat(fs, Undone.path).kind = "file"
    /\ Lstat(fs, Undone.path).data = Lstat(Get(pre), Undone.path).data
    /\ Lstat(fs, Get(Undone.path_secondary)).kind = "none"

\* Byte sequences handed to store.
StoreInputs == {<<>>, <<1>>, <<2>>, <<1, 2>>}

\* C22: for every byte sequence, retrieve of what store stored returns
\* the bytes; storing them again changes nothing, and one store adds at
\* most one blob (none when the bytes are stored already).
C22_StoreRetrieveRoundTrip ==
    \A b \in StoreInputs :
        LET stored(c1) ==
                /\ Retrieve(c1, HashOf(BytesBlob(b))).e = "Ok"
                /\ Retrieve(c1, HashOf(BytesBlob(b))).content.bytes = b
                /\ StoreBlob(c1, BytesBlob(b)) = c1
                /\ StoreBlob(StoreBlob(c1, BytesBlob(b)), BytesBlob(b)) = c1
                /\ Cardinality(c1) <= Cardinality(cs) + 1
                /\ StoreHas(cs, HashOf(BytesBlob(b))) => c1 = cs
                /\ cs \subseteq c1
        IN  stored(StoreBlob(cs, BytesBlob(b)))

\* The store holds the bytes <<2>> and a second blob, not the bytes
\* <<1, 2>>, and an obliteration has removed a blob before.
C22_Witness ==
    /\ Cardinality(cs) >= 2
    /\ Len(oblog) >= 1
    /\ StoreHas(cs, HashOf(BytesBlob(<<2>>)))
    /\ ~StoreHas(cs, HashOf(BytesBlob(<<1, 2>>)))
    /\ Retrieve(cs, HashOf(BytesBlob(<<2>>))).content.bytes = <<2>>

\* The hashes retrieve is asked for: those in the store, those the
\* journal refers to, and one that was never stored.
KnownHashes ==
    {e.hash : e \in cs}
        \cup {Get(journal[i].content_hash) :
                 i \in {k \in 1..Len(journal) : IsSome(journal[k].content_hash)}}
        \cup {MissingHash}

TextX == <<Run(97, 2000), 10, Run(98, 2000), 10, Run(99, 2000), 10, 120, 10>>

TextY == <<Run(97, 2000), 10, Run(98, 2000), 10, Run(99, 2000), 10, 121, 10>>

TextTop == <<Run(100, 2000), 10, Run(98, 2000), 10, Run(99, 2000), 10, 120, 10>>

TextSmall == <<104, 105>>

DeltaTexts == {TextX, TextY, TextTop, TextSmall}

TreeText(c) ==
    [p \in Paths |-> IF p = <<"a">> THEN FileNode(c, ModeFile, "old") ELSE Absent]

InitDelta == fs \in {TreeText(c) : c \in DeltaTexts} /\ Fresh

ExecModifyDelta ==
    \E c \in DeltaTexts :
        Execute(execute_modify_with(Here, active_id(txlog), <<"a">>, c, TRUE))

\* Another program writes the file between an execute and an undo.
ExternalWrite ==
    /\ pc = "idle"
    /\ last.call = "execute"
    /\ \E c \in DeltaTexts :
         /\ CanRead(fs, <<"a">>)
         /\ ReadBytes(fs, <<"a">>) # c
         /\ fs' = WriteFile(fs, <<"a">>, c).fs
    /\ last' = Call("write", "Ok", None, FALSE)
    /\ pre' = None
    /\ begun' = Track(txlog, TRUE)
    /\ UNCHANGED <<cs, journal, nextId, txlog, pc, pending, others>>

NextDelta ==
    \/ ExecModifyDelta
    \/ ExternalWrite
    \/ Undo

SpecDelta == InitDelta /\ [][NextDelta]_vars

\* C24: for all byte strings original and new, applying
\* Delta::compute(original, new) to original returns exactly new, whichever
\* encoding compute selects.  original ranges over what the file holds,
\* new over the texts a Modify may carry.
C24_DeltaRoundTrip ==
    CanRead(fs, <<"a">>)
    => \A new \in DeltaTexts :
           apply(compute(ReadBytes(fs, <<"a">>), new), ReadBytes(fs, <<"a">>)) = Some(new)

\* The file holds something other than the new content the record was
\* written with.
Drifted(r) ==
    /\ CanRead(fs, r.path)
    /\ Some(HashOf(BytesBlob(ReadBytes(fs, r.path)))) # r.new_content_hash

\* C25: undo of a Modify record stored as a reverse delta, when the file's
\* bytes differ from the new content recorded at execute time, fails with
\* a corruption error and writes nothing.
C25_DeltaUndoDetectsDrift ==
    \A i \in 1..Len(journal) :
        (journal[i].op_type = "Modify" /\ journal[i].is_delta /\ ~journal[i].undone
             /\ Drifted(journal[i]))
        => LET u == undo(Here, None, journal[i].id)
           IN  /\ u.err \in {"MetadataCorrupted", "ContentIntegrityError"}
               /\ u.w = Here


\* A record without the two fields an undo sets.
Immutable(rec) == [rec EXCEPT !.undone = FALSE, !.undo_operation_id = None]

\* C31: in every step the journal keeps its records in place, unaltered
\* but for undone and undo_operation_id, and only grows at the end; a
\* successful execute appends exactly one record, the one it returns,
\* under an id no record had, and a failed execute appends none; the ids
\* of the journal are pairwise distinct.
C31_JournalAppendOnly ==
    /\ [](\A i \in 1..Len(journal), j \in 1..Len(journal) :
             journal[i].id = journal[j].id => i = j)
    /\ [][/\ Len(journal') >= Len(journal)
          /\ \A i \in 1..Len(journal) : Immutable(journal'[i]) = Immutable(journal[i])
          /\ (last'.call = "execute" /\ last'.err = "Ok")
             => /\ Len(journal') = Len(journal) + 1
                /\ journal'[Len(journal')].id = Get(last'.id)
                /\ ~HasRecord(journal, Get(last'.id))
                /\ \A i \in 1..Len(journal) : journal'[i] = journal[i]
          /\ (last'.call = "execute" /\ last'.err # "Ok") => journal' = journal]_vars

\* A journal of three records: the second was appended by the undo of the
\* first, the third by the execute that has just returned.
C31_Witness ==
    /\ Len(journal) = 3
    /\ journal[1].undone
    /\ journal[1].undo_operation_id = Some(journal[2].id)
    /\ last.call = "execute"
    /\ last.err = "Ok"
    /\ last.id = Some(journal[3].id)


\* C32: prune(keep) on a journal of n records returns max(0, n - keep) as
\* the number removed and leaves exactly the records after that many
\* oldest ones, in their order: the most recent keep records when n > keep.
C32_PruneDropsOldest ==
    \A keep \in 0..(MaxJournal + 1) :
        LET n == Len(journal)
            r == prune(journal, keep)
        IN  /\ r.removed = (IF n > keep THEN n - keep ELSE 0)
            /\ Len(r.log) = n - r.removed
            /\ Len(r.log) = (IF n > keep THEN keep ELSE n)
            /\ \A k \in 1..Len(r.log) : r.log[k] = journal[r.removed + k]

\* gc has just pruned, one record is left, and the journal before it held
\* more: the record left is the newest ever appended.
C32_Witness ==
    /\ last.call = "gc"
    /\ Len(journal) = 1
    /\ journal[1].id = <<"op", nextId - 1>>
    /\ nextId > 2
    /\ prune(journal, 0).removed = 1


\* C33: a rollback skips the operations of the transaction that are
\* already undone, so it never ends with the error of an undo that was
\* refused because its record was undone before.
C33_RollbackSkipsUndone ==
    ~(/\ last.call = "rollback"
      /\ last.err = "OperationFailed"
      /\ IsSome(last.id)
      /\ GetRecord(journal, Get(last.id)).undone)


\* C34: an undo that returns an error leaves the filesystem and the
\* journal exactly as they were before the call.
C34_FailedUndoChangesNothing ==
    \A i \in 1..Len(journal) :
        LET u == undo(Here, None, journal[i].id)
        IN  u.err # "Ok" => (u.w.fs = fs /\ u.w.log = journal)


\* The ids of the records that undo calls appended.
UndoRecordIds ==
    {Get(journal[i].undo_operation_id) :
        i \in {k \in 1..Len(journal) : journal[k].undone}}

\* C35: the record jk_undo_last selects is never a record that an
\* earlier undo appended, so repeated calls walk backwards through the
\* operations and the second call does not undo the first call's undo.
C35_UndoLastSkipsUndoRecords ==
    LET r == jk_undo_last(Here)
    IN  r.err = "Ok"
        => \A i \in 1..Len(journal) :
               (~journal[i].undone /\ r.w.log[i].undone)
               => journal[i].id \notin UndoRecordIds


\* C36: an undo never replaces the bytes of a file that exists when the
\* undo is called unless those bytes are held by the content store
\* afterwards; in particular the undo of a recursive Rmdir does not
\* overwrite a file that was created again at a path of the manifest.
C36_UndoCapturesWhatItOverwrites ==
    [][last'.call = "undo"
       => \A p \in Paths :
              (fs[p].kind = "file" /\ fs'[p].kind = "file" /\ fs'[p].data # fs[p].data)
              => StoreHas(cs', HashOf(BytesBlob(fs[p].data)))]_vars


\* C37: once the obliteration log holds a record for a hash, the content
\* store never again holds a blob at that hash, whatever is executed,
\* undone or stored afterwards.
C37_ObliteratedStaysGone ==
    \A k \in 1..Len(oblog) : ~StoreHas(cs, oblog[k].content_hash)


\* C38: whenever two instances open on the same working directory take
\* turns, the persisted journal, transaction log and obliteration log hold
\* every record an instance has appended (every record an instance keeps
\* in memory is in the file).
C38_NoRecordLost ==
    \A i \in Instances :
        IsSome(held[i])
        => /\ \A k \in 1..Len(Get(held[i]).log) :
                  HasRecord(journal, Get(held[i]).log[k].id)
           /\ \A k \in 1..Len(Get(held[i]).tl.transactions) :
                  \E j \in 1..Len(txlog.transactions) :
                      txlog.transactions[j].id = Get(held[i]).tl.transactions[k].id
           /\ \A k \in 1..Len(Get(held[i]).ol) :
                  \E j \in 1..Len(oblog) : oblog[j] = Get(held[i]).ol[k]


\* What rotate, retrieve and revoke do with the key at position i of the
\* store when called on the manager m: a key that is not Revoked is
\* rotated into Revoked with exactly one new Active key whose rotation_of
\* names it; a Revoked key is refused by all three with AlreadyRevoked.
KeyLaw(m, i) ==
    LET keys == Get(m.store).keys
        id == keys[i].metadata.id
        r == rotate(m, id, NextKeyId, NextSecret)
        after == Get(r.m.store).keys
    IN  IF keys[i].metadata.state # "Revoked"
        THEN /\ r.err = "Ok"
             /\ Len(after) = Len(keys) + 1
             /\ after[i].metadata = [keys[i].metadata EXCEPT !.state = "Revoked"]
             /\ \A j \in (1..Len(keys)) \ {i} : after[j] = keys[j]
             /\ after[Len(after)].metadata.state = "Active"
             /\ after[Len(after)].metadata.rotation_of = Some(id)
             /\ after[Len(after)].metadata.id \notin {keys[j].metadata.id : j \in 1..Len(keys)}
        ELSE /\ r = KeyFail(m, "AlreadyRevoked")
             /\ retrieve(m, id) = KeyFail(m, "AlreadyRevoked")
             /\ revoke(m, id) = KeyFail(m, "AlreadyRevoked")

\* A Revoked key stays in the store, Revoked, whatever is called.
RevokedStays ==
    \A i \in 1..Len(StoredKeys) :
        StoredKeys[i].metadata.state = "Revoked"
        => /\ IsSome(keystore')
           /\ Len(Get(keystore').keys) >= i
           /\ Get(keystore').keys[i].metadata = StoredKeys[i].metadata

AttestedUnder(e) == e.attestation[2][2].key

\* The key the audit log of the manager attests and verifies with.
CurrentKey ==
    IF IsSome(AttestationKeyOf(kek)) THEN Get(AttestationKeyOf(kek)) ELSE ZeroBytes

\* C40: when every log_event call was made with the attestation key the
\* log holds now, every entry's previous_hash is compute_hash of the entry
\* before it (the genesis hash for the first), and verify_integrity
\* reports valid with total_entries equal to the number of events logged.
C40_ChainVerifies ==
    LET entries == read_all(auditlog)
    IN  (\A i \in 1..Len(entries) : AttestedUnder(entries[i]) = CurrentKey)
        => /\ \A i \in 1..Len(entries) :
                  entries[i].previous_hash =
                      (IF i = 1 THEN GenesisHash ELSE compute_hash(entries[i - 1]))
           /\ verify_integrity(auditlog, AttestationKeyOf(kek)) =
                  [valid |-> TRUE, total_entries |-> logged, first_invalid_index |-> None]

\* Four events of different kinds were logged under one key, the last a
\* rotation, and the log verifies.
C40_Witness ==
    /\ last.call = "rotate" /\ last.err = "Ok"
    /\ logged = 4
    /\ Len(auditlog) = 4
    /\ \A i \in 1..4 : AttestedUnder(read_all(auditlog)[i]) = CurrentKey
    /\ read_all(auditlog)[2].previous_hash = compute_hash(read_all(auditlog)[1])
    /\ read_all(auditlog)[1].previous_hash = GenesisHash
    /\ verify_integrity(auditlog, AttestationKeyOf(kek)).valid

====
